---------------------------- MODULE Spec2Model ----------------------------
(***************************************************************************)
(* A model of the SAT solvers of this repository.                          *)
(*                                                                         *)
(* The main part is the watched-literal solver (Knuth's Algorithm B) of    *)
(* src/sat.mjs, lines 32-138: the validation scan, the construction of the *)
(* flat store and of the watch chains, and the search driver B1-B6, one    *)
(* action per step of the driver.  Arrays keep the 0-based indices of the  *)
(* source (functions over 0..size-1); the input formula is a sequence.     *)
(***************************************************************************)
EXTENDS Integers, Sequences, FiniteSets, TLC

-----------------------------------------------------------------------------
(* Bounds of the model. *)

\* Well-formed input formulas use variables 1..MaxVar ...
MaxVar == 3
\* ... and hold at most MaxLits literal occurrences in all their clauses.
MaxLits == 3
\* Input formulas with malformed parts hold at most MaxRaw cells (a cell is
\* a literal slot, an empty clause or a clause that is no array).
MaxRaw == 3

\* The longest literal list handed to the cardinality helpers.
MaxList == 4

-----------------------------------------------------------------------------
(* JavaScript values of the input.                                         *)
(* A literal slot holds an integer (int = TRUE, its value v) or a value    *)
(* that Number.isInteger rejects (int = FALSE).  A clause slot holds an    *)
(* array (arr = TRUE, its elements ls) or something that is no array.      *)
(* The formula itself is an array of clause slots or no array.             *)

IntValue(x) == [int |-> TRUE, v |-> x]
NotAnInteger == [int |-> FALSE, v |-> 0]
ArrayOf(s) == [arr |-> TRUE, ls |-> s]
NotAnArray == [arr |-> FALSE, ls |-> <<>>]
FormulaOf(cs) == [arr |-> TRUE, cs |-> cs]
NotAFormula == [arr |-> FALSE, cs |-> <<>>]

\* A well-formed formula from a sequence of sequences of integers.
WellFormed(f) ==
  FormulaOf([i \in 1..Len(f) |-> ArrayOf([j \in 1..Len(f[i]) |-> IntValue(f[i][j])])])


-----------------------------------------------------------------------------
(* Numbers.  JavaScript numbers reach beyond the 32-bit integers TLC        *)
(* computes with, and the bitwise operators of the literal codec work on   *)
(* 32-bit words, so an integer-valued number is kept as a sign and two     *)
(* limbs: its magnitude is hi * 2^16 + lo.                                 *)

Limb == 256 * 256
HalfLimb == Limb \div 2

Abs(x) == IF x < 0 THEN -x ELSE x

FromInt(x) == [neg |-> x < 0, hi |-> Abs(x) \div Limb, lo |-> Abs(x) % Limb]

\* Math.abs(literal)
MathAbs(b) == [neg |-> FALSE, hi |-> b.hi, lo |-> b.lo]

\* x - 1 for a number x >= 1
MinusOne(b) ==
  IF b.lo > 0 THEN [b EXCEPT !.lo = b.lo - 1]
  ELSE [b EXCEPT !.hi = b.hi - 1, !.lo = Limb - 1]

\* ToUint32(x): the low 32 bits of x in two's complement, as <<high, low>> halves.
ToUint32(b) ==
  LET h == b.hi % Limb
  IN  IF ~b.neg \/ (h = 0 /\ b.lo = 0) THEN <<h, b.lo>>
      ELSE IF b.lo = 0 THEN <<Limb - h, 0>>
      ELSE <<Limb - 1 - h, Limb - b.lo>>

\* w << 1 on a 32-bit word
ShiftLeft1(w) == <<(2 * w[1] + (2 * w[2]) \div Limb) % Limb, (2 * w[2]) % Limb>>

\* w >>> 31 on a 32-bit word: its top bit
ShiftRight31(w) == IF w[1] >= HalfLimb THEN 1 ELSE 0

\* w | bit, for a bit 0 or 1
OrBit(w, bit) == IF w[2] % 2 = 1 THEN w ELSE <<w[1], w[2] + bit>>

\* The word ((Math.abs(literal) - 1) << 1) | (literal >>> 31), as stored in a
\* Uint32Array.
EncodeWord(b) ==
  OrBit(ShiftLeft1(ToUint32(MinusOne(MathAbs(b)))), ShiftRight31(ToUint32(b)))

\* A 32-bit word below 2^31 as an integer.
WordToInt(w) == w[1] * Limb + w[2]

\* The code of literal x as the solver stores it.
Encode(x) == WordToInt(EncodeWord(FromInt(x)))

\* l ^ 1 on a literal code
Complement(l) == IF l % 2 = 0 THEN l + 1 ELSE l - 1

\* A slip: the retry bit of move is not masked off.
ToDimacsEntry_NoMask(i, mv) == (i + 1) * (1 - 2 * mv)

\* Entry i of to_dimacs: (i + 1) * (1 - ((move[i] & 1) << 1))
ToDimacsEntry(i, mv) == (i + 1) * (1 - 2 * (mv % 2))

to_dimacs(mv, size) == [i \in 1..size |-> ToDimacsEntry(i - 1, mv[i - 1])]

-----------------------------------------------------------------------------
(* Input formulas. *)

Lits == {x \in -MaxVar..MaxVar : x # 0}

\* Clause slots of a given cost over an alphabet of literal slots; the
\* specials (an empty array, a slot that is no array) cost one cell.
ClauseSlots(k, Alpha, Specials) ==
  {ArrayOf(s) : s \in [1..k -> Alpha]} \cup (IF k = 1 THEN Specials ELSE {})

RECURSIVE SlotSeqs(_, _, _)
SlotSeqs(b, Alpha, Specials) ==
  {<<>>} \cup
  UNION {{<<c>> \o f : c \in ClauseSlots(k, Alpha, Specials),
                       f \in SlotSeqs(b - k, Alpha, Specials)} : k \in 1..b}

\* Every well-formed formula over the variables 1..MaxVar with at most
\* MaxLits literal occurrences (duplicate literals, tautologies, repeated
\* clauses and unused variables included).
SmallFormulas ==
  {FormulaOf(cs) : cs \in SlotSeqs(MaxLits, {IntValue(x) : x \in Lits}, {})}

\* Formulas with malformed parts: zero and non-integer literals, empty
\* clauses, clauses that are no arrays, and a formula that is no array.
RawFormulas ==
  {FormulaOf(cs) :
     cs \in SlotSeqs(MaxRaw,
                     {IntValue(1), IntValue(-1), IntValue(0), NotAnInteger},
                     {ArrayOf(<<>>), NotAnArray})}
  \cup {NotAFormula}

\* The formulas of the tests of src/sat.mjs.
Simple2SAT == <<<<1, 2>>, <<-1, 3>>, <<-3, 4>>, <<1>>>>

ShortestInteresting ==
  << <<1, 2, -3>>, <<2, 3, -4>>, <<1, 3, 4>>, <<-1, 2, 4>>,
     <<-1, -2, 3>>, <<-2, -3, 4>>, <<-3, -4, -1>>, <<1, -2, -4>> >>

VanDerWaerden ==
  << <<1, 2, 3>>, <<-1, -2, -3>>, <<1, 3, 5>>, <<-1, -3, -5>>,
     <<1, 4, 7>>, <<-1, -4, -7>>, <<2, 3, 4>>, <<-2, -3, -4>>,
     <<2, 4, 6>>, <<-2, -4, -6>>, <<2, 5, 8>>, <<-2, -5, -8>>,
     <<3, 4, 5>>, <<-3, -4, -5>>, <<3, 5, 7>>, <<-3, -5, -7>>,
     <<4, 5, 6>>, <<-4, -5, -6>>, <<4, 6, 8>>, <<-4, -6, -8>>,
     <<5, 6, 7>>, <<-5, -6, -7>>, <<6, 7, 8>>, <<-6, -7, -8>> >>

\* The subsequences of a sequence, in order.
RECURSIVE SubSeqs(_)
SubSeqs(s) ==
  IF s = <<>> THEN {<<>>}
  ELSE LET rest == SubSeqs(Tail(s))
       IN  rest \cup {<<Head(s)>> \o t : t \in rest}

TestFormulas ==
  {WellFormed(f) : f \in SubSeqs(ShortestInteresting) \cup {Simple2SAT, VanDerWaerden}}

Inputs == SmallFormulas \cup RawFormulas \cup TestFormulas

-----------------------------------------------------------------------------
(* The watched-literal solver: solve() of src/sat.mjs, lines 32-138. *)

VARIABLES
  formula,   \* the argument of solve
  pc,        \* the position in solve
  result,    \* "pending", "assignment", "null", or the error thrown
  solution,  \* the value returned by the mapper
  m, n, p,   \* clauses, variables, literal occurrences
  i,         \* index of the clause the validation scan is at
  literals, start, watch, next, move,
  d, l, j,   \* depth, decision literal, clause under the B3 scan
  \* The caller: solve is called on a formula and then once more on the same
  \* formula.
  run,       \* "first" or "second": which of the two calls this is
  first,     \* what the first call returned and went through
  trace,     \* the (d, l, move, watch, next, literals) states of this call
  \* The literal codec on its own (the section after the solver).
  num, impl, cstage, verdict, word, back,
  \* The cardinality encoder.
  cop, ck, cls, cout,
  \* The reference solvers (the last section): which function is called, its
  \* argument, and what it returned.
  rop, rin, rout,
  \* A run of sat of src/sat.js, step by step: the clause arrays and the
  \* formula arrays there are (a formula array holds references to clause
  \* arrays, 0 for null), the calls of sat_recursive under way, the
  \* adjacency lists, the arrays open and closed, and where the run is.
  arrays, copies, frames, adjacency, openList, closedList, phase

solverVars == <<formula, pc, result, solution, m, n, p, i,
                literals, start, watch, next, move, d, l, j>>
callerVars == <<run, first, trace>>
codecVars == <<num, impl, cstage, verdict, word, back>>
cardVars == <<cop, ck, cls, cout>>
refVars == <<rop, rin, rout>>
runVars == <<arrays, copies, frames, adjacency, openList, closedList, phase>>

vars == <<solverVars, callerVars, codecVars, cardVars, refVars, runVars>>

\* What the solver leaves alone.
aux == <<codecVars, cardVars, refVars, runVars>>

store == <<literals, start, watch, next, move>>

Errors == {"TypeError: Invalid formula", "TypeError: Invalid clause",
           "TypeError: Invalid literal", "RangeError: Invalid variable"}

NoArray == <<>>

Max(a, b) == IF a > b THEN a ELSE b

\* Clause i (0-based) of the input and its literal j (0-based).
ClauseAt(f, c) == f.cs[c + 1]
LitAt(f, c, k) == f.cs[c + 1].ls[k + 1].v

\* The state of a call of solve before its first statement.
Fresh ==
  /\ result = "pending"
  /\ solution = <<>>
  /\ m = 0 /\ n = 0 /\ p = 0 /\ i = 0
  /\ literals = NoArray /\ start = NoArray /\ watch = NoArray
  /\ next = NoArray /\ move = NoArray
  /\ d = 0 /\ l = 0 /\ j = 0
  /\ trace = <<>>

NoCall == [result |-> "pending", solution |-> <<>>, trace |-> <<>>]

CodecIdle ==
  /\ num = FromInt(1) /\ impl = "sat.mjs" /\ cstage = "idle"
  /\ verdict = "none" /\ word = <<0, 0>> /\ back = FromInt(0)

NotReturned == [returned |-> FALSE, clauses |-> <<>>]

Returned(clauses) == [returned |-> TRUE, clauses |-> clauses]

CardIdle == cop = "idle" /\ ck = 0 /\ cls = <<>> /\ cout = NotReturned

\* null, and a value that is not null.
Null == [null |-> TRUE, v |-> <<>>]

Value(x) == [null |-> FALSE, v |-> x]

NothingReturned == [returned |-> FALSE, value |-> Null]

RefIdle == rop = "idle" /\ rin = Null /\ rout = NothingReturned

\* No run of sat is under way.
RunIdle ==
  /\ arrays = <<>> /\ copies = <<>> /\ frames = <<>> /\ adjacency = <<>>
  /\ openList = <<>> /\ closedList = <<>> /\ phase = "idle"

\* No call of solve is under way.
SolverIdle ==
  /\ formula = FormulaOf(<<>>)
  /\ pc = "idle"
  /\ Fresh
  /\ run = "first"
  /\ first = NoCall

Init ==
  /\ RunIdle
  /\ formula \in Inputs
  /\ pc = "enter"
  /\ Fresh
  /\ run = "first"
  /\ first = NoCall
  /\ CodecIdle
  /\ CardIdle
  /\ RefIdle

\* The search state the solver is in.
Snapshot == <<d, l, move, watch, next, literals>>

\* Lines 34-39: the formula must be an array; m, n, p and i are set.
Enter ==
  /\ pc = "enter"
  /\ IF formula.arr
       THEN /\ m' = Len(formula.cs)
            /\ pc' = "scan"
            /\ UNCHANGED result
       ELSE /\ result' = "TypeError: Invalid formula"
            /\ pc' = "done"
            /\ UNCHANGED m
  /\ n' = 0 /\ p' = 0 /\ i' = 0
  /\ UNCHANGED <<formula, solution, store, d, l, j, aux>>

\* Lines 50-53: what the scan does with one literal slot: "ok" or the error.
\* A slip: variable >= 0 instead of variable >= 1.
RangeCheck_AllowZero(variable) == "ok"

\* Line 53: the range test on variable = Math.abs(literal).
RangeCheck(variable) ==
  IF ~(variable.hi > 0 \/ variable.lo >= 1)
    THEN "RangeError: Invalid variable"
    ELSE "ok"

LiteralCheck(x) ==
  IF ~x.int THEN "TypeError: Invalid literal"
  ELSE RangeCheck(MathAbs(FromInt(x.v)))

\* Lines 48-56: the literals of a clause in order: the first error, if any,
\* and the largest variable seen before it.
RECURSIVE ScanLiterals(_, _, _)
ScanLiterals(ls, k, nn) ==
  IF k > Len(ls) THEN [error |-> "ok", n |-> nn]
  ELSE IF LiteralCheck(ls[k]) # "ok" THEN [error |-> LiteralCheck(ls[k]), n |-> nn]
  ELSE ScanLiterals(ls, k + 1, Max(nn, Abs(ls[k].v)))

\* A slip: the early return for an empty clause is missing.
IsEmpty_Never(clause) == FALSE

\* Line 44: the clause has no literal.
IsEmpty(clause) == Len(clause.ls) < 1

\* Lines 39-57: one round of the validation loop.
ScanClause ==
  /\ pc = "scan"
  /\ i < m
  /\ LET clause == ClauseAt(formula, i)
     IN  IF ~clause.arr
           THEN /\ result' = "TypeError: Invalid clause"
                /\ pc' = "done"
                /\ UNCHANGED <<n, p, i>>
         ELSE IF IsEmpty(clause)
           THEN /\ result' = "null"
                /\ pc' = "done"
                /\ UNCHANGED <<n, p, i>>
         ELSE LET r == ScanLiterals(clause.ls, 1, n)
              IN  /\ p' = p + Len(clause.ls)
                  /\ n' = r.n
                  /\ IF r.error # "ok"
                       THEN /\ result' = r.error
                            /\ pc' = "done"
                            /\ UNCHANGED i
                       ELSE /\ i' = i + 1
                            /\ UNCHANGED <<result, pc>>
  /\ UNCHANGED <<formula, solution, m, store, d, l, j, aux>>

\* Lines 67-78: the literal codes of all clauses, in clause order, and the
\* slot at which each clause starts.
RECURSIVE StartOf(_, _)
StartOf(f, c) == IF c = 0 THEN 0 ELSE StartOf(f, c - 1) + Len(ClauseAt(f, c - 1).ls)

RECURSIVE ClauseOfSlot(_, _, _)
ClauseOfSlot(f, k, c) ==
  IF k < StartOf(f, c + 1) THEN c ELSE ClauseOfSlot(f, k, c + 1)

FillLiterals(f, pp) ==
  [k \in 0..(pp - 1) |->
     LET c == ClauseOfSlot(f, k, 0)
     IN  Encode(LitAt(f, c, k - StartOf(f, c)))]

FillStart(f, mm) == [c \in 0..mm |-> StartOf(f, c)]

\* A slip: the chains are threaded from the first clause to the last.
RECURSIVE ThreadWatches_Forward(_, _, _, _)
ThreadWatches_Forward(f, c, w, nx) ==
  IF c = 0 THEN [watch |-> w, next |-> nx]
  ELSE LET cl == Len(f.cs) - c
           code == Encode(LitAt(f, cl, 0))
       IN  ThreadWatches_Forward(f, c - 1, [w EXCEPT ![code] = cl],
                                 [nx EXCEPT ![cl] = w[code]])

\* Lines 80-85: the watch chains, threaded from the last clause to the first.
\* c counts the clauses still to be threaded.
RECURSIVE ThreadWatches(_, _, _, _)
ThreadWatches(f, c, w, nx) ==
  IF c = 0 THEN [watch |-> w, next |-> nx]
  ELSE LET code == Encode(LitAt(f, c - 1, 0))
       IN  ThreadWatches(f, c - 1, [w EXCEPT ![code] = c - 1],
                         [nx EXCEPT ![c - 1] = w[code]])

\* Lines 59-85: allocate and fill the store, thread the watch chains; B1.
Construct ==
  /\ pc = "scan"
  /\ i = m
  /\ LET t == ThreadWatches(formula, m, [c \in 0..(2 * n - 1) |-> m],
                            [c \in 0..(m - 1) |-> m])
     IN  /\ literals' = FillLiterals(formula, p)
         /\ start' = FillStart(formula, m)
         /\ watch' = t.watch
         /\ next' = t.next
         /\ move' = [c \in 0..(n - 1) |-> 0]
  /\ d' = 0
  /\ pc' = "B2"
  /\ UNCHANGED <<formula, result, solution, m, n, p, i, l, j, aux>>

\* A slip: a variable that no clause watches is tried positive first.
FirstMove_PositiveFirst(w, dd, mm) ==
  IF w[2 * dd + 1] < mm THEN 1 ELSE 0

\* Line 90: the phase tried first at depth dd.
FirstMove(w, dd, mm) ==
  IF w[2 * dd] >= mm \/ w[2 * dd + 1] < mm THEN 1 ELSE 0

\* Lines 89-94 and 137: B2, rejoice or choose.
B2 ==
  /\ pc = "B2"
  /\ IF d < n
       THEN LET mv == FirstMove(watch, d, m)
            IN  /\ move' = [move EXCEPT ![d] = mv]
                /\ l' = 2 * d + mv
                /\ j' = watch[Complement(2 * d + mv)]
                /\ pc' = "B3"
                /\ UNCHANGED <<result, solution>>
       ELSE /\ result' = "assignment"
            /\ solution' = to_dimacs(move, n)
            /\ pc' = "done"
            /\ UNCHANGED <<move, l, j>>
  /\ UNCHANGED <<formula, m, n, p, i, literals, start, watch, next, d>>
  /\ UNCHANGED aux

\* A slip: the variable being decided counts as unassigned.
NotFalse_AtDepth(lp, dd, mv) ==
  (lp \div 2) >= dd \/ (lp + mv[lp \div 2]) % 2 = 0

\* A slip: only unassigned literals count, true ones do not.
NotFalse_OnlyUnassigned(lp, dd, mv) == (lp \div 2) > dd

\* Line 104: literal code lp is not false at depth dd.
NotFalse(lp, dd, mv) ==
  (lp \div 2) > dd \/ (lp + mv[lp \div 2]) % 2 = 0

\* A slip: every literal of another variable than the one being decided
\* counts as a replacement.
Replacements_OtherVariables(jj) ==
  {k \in (start[jj] + 1)..(start[jj + 1] - 1) : literals[k] \div 2 # d}

\* A slip: every later slot of the clause counts as a replacement, false
\* literals included.
Replacements_AnyLiteral(jj) == (start[jj] + 1)..(start[jj + 1] - 1)

\* Lines 101-113: the slots after the first of clause jj that hold a
\* literal that is not false.
Replacements(jj) ==
  {k \in (start[jj] + 1)..(start[jj + 1] - 1) : NotFalse(literals[k], d, move)}

\* A slip: the scan of the clause keeps the last replacement it meets.
Lowest_Last(S) == CHOOSE k \in S : \A k2 \in S : k >= k2

\* The lowest of a nonempty set of slots.
Lowest(S) == CHOOSE k \in S : \A k2 \in S : k <= k2

\* A slip: the replacement is copied to the front, and the complement of l
\* is not written to the slot it came from.
B3_CopyNotSwap ==
  /\ pc = "B3"
  /\ j < m
  /\ IF Replacements(j) # {}
       THEN LET k == Lowest(Replacements(j))
                lp == literals[k]
            IN  /\ literals' = [literals EXCEPT ![start[j]] = lp]
                /\ next' = [next EXCEPT ![j] = watch[lp]]
                /\ watch' = [watch EXCEPT ![lp] = j]
                /\ j' = next[j]
                /\ UNCHANGED pc
       ELSE /\ watch' = [watch EXCEPT ![Complement(l)] = j]
            /\ pc' = "B6"
            /\ UNCHANGED <<literals, next, j>>
  /\ UNCHANGED <<formula, result, solution, m, n, p, i, start, move, d, l>>
  /\ UNCHANGED aux

\* A slip: the relocated clause keeps its old next link.
B3_KeepNext ==
  /\ pc = "B3"
  /\ j < m
  /\ IF Replacements(j) # {}
       THEN LET k == Lowest(Replacements(j))
                lp == literals[k]
            IN  /\ literals' = [literals EXCEPT ![start[j]] = lp,
                                                ![k] = Complement(l)]
                /\ watch' = [watch EXCEPT ![lp] = j]
                /\ j' = next[j]
                /\ UNCHANGED <<pc, next>>
       ELSE /\ watch' = [watch EXCEPT ![Complement(l)] = j]
            /\ pc' = "B6"
            /\ UNCHANGED <<literals, next, j>>
  /\ UNCHANGED <<formula, result, solution, m, n, p, i, start, move, d, l>>
  /\ UNCHANGED aux

\* Lines 96-116: B3, one clause of the chain of the complement of l.
B3 ==
  /\ pc = "B3"
  /\ j < m
  /\ IF Replacements(j) # {}
       THEN LET k == Lowest(Replacements(j))
                lp == literals[k]
            IN  /\ literals' = [literals EXCEPT ![start[j]] = lp,
                                                ![k] = Complement(l)]
                /\ next' = [next EXCEPT ![j] = watch[lp]]
                /\ watch' = [watch EXCEPT ![lp] = j]
                /\ j' = next[j]
                /\ UNCHANGED pc
       ELSE /\ watch' = [watch EXCEPT ![Complement(l)] = j]
            /\ pc' = "B6"
            /\ UNCHANGED <<literals, next, j>>
  /\ UNCHANGED <<formula, result, solution, m, n, p, i, start, move, d, l>>
  /\ UNCHANGED aux

\* A slip: B4 advances and leaves the head of the drained chain as it is.
B4_KeepsHead ==
  /\ pc = "B3"
  /\ j >= m
  /\ d' = d + 1
  /\ pc' = "B2"
  /\ UNCHANGED <<formula, result, solution, m, n, p, i, store, l, j>>
  /\ UNCHANGED aux

\* A slip: B4 advances before the chain is drained.
B4_BeforeDrained ==
  /\ pc = "B3"
  /\ watch' = [watch EXCEPT ![Complement(l)] = m]
  /\ d' = d + 1
  /\ pc' = "B2"
  /\ UNCHANGED <<formula, result, solution, m, n, p, i,
                 literals, start, next, move, l, j>>
  /\ UNCHANGED aux

\* Lines 132-134: B4, advance.
B4 ==
  /\ pc = "B3"
  /\ j >= m
  /\ watch' = [watch EXCEPT ![Complement(l)] = m]
  /\ d' = d + 1
  /\ pc' = "B2"
  /\ UNCHANGED <<formula, result, solution, m, n, p, i,
                 literals, start, next, move, l, j>>
  /\ UNCHANGED aux

\* A slip: B6 leaves every level but the first, retried or not.
B6_SkipsUntried ==
  /\ pc = "B6"
  /\ IF d >= 1
       THEN /\ d' = d - 1
            /\ UNCHANGED <<result, pc>>
       ELSE IF move[d] >= 2
              THEN /\ result' = "null"
                   /\ pc' = "done"
                   /\ UNCHANGED d
              ELSE /\ pc' = "B5"
                   /\ UNCHANGED <<result, d>>
  /\ UNCHANGED <<formula, solution, m, n, p, i, store, l, j>>
  /\ UNCHANGED aux

\* A slip: leaving a level, B6 empties the chain that B3 could not drain.
B6_ClearsChain ==
  /\ pc = "B6"
  /\ IF move[d] >= 2
       THEN IF d < 1
              THEN /\ result' = "null"
                   /\ pc' = "done"
                   /\ UNCHANGED <<d, watch>>
              ELSE /\ d' = d - 1
                   /\ watch' = [watch EXCEPT ![Complement(l)] = m]
                   /\ UNCHANGED <<result, pc>>
       ELSE /\ pc' = "B5"
            /\ UNCHANGED <<result, d, watch>>
  /\ UNCHANGED <<formula, solution, m, n, p, i,
                 literals, start, next, move, l, j>>
  /\ UNCHANGED aux

\* A slip: B6 hands every level to B5, exhausted or not.
B6_NeverBacktrack ==
  /\ pc = "B6"
  /\ pc' = "B5"
  /\ UNCHANGED <<formula, result, solution, m, n, p, i, store, d, l, j>>
  /\ UNCHANGED aux

\* A slip: depth zero gives up without looking at move[0].
B6_GiveUpAtZero ==
  /\ pc = "B6"
  /\ IF d < 1
       THEN /\ result' = "null"
            /\ pc' = "done"
            /\ UNCHANGED d
       ELSE IF move[d] >= 2
              THEN /\ d' = d - 1
                   /\ UNCHANGED <<result, pc>>
              ELSE /\ pc' = "B5"
                   /\ UNCHANGED <<result, d>>
  /\ UNCHANGED <<formula, solution, m, n, p, i, store, l, j>>
  /\ UNCHANGED aux

\* Lines 119-122: B6, one round of the backtracking loop.
B6 ==
  /\ pc = "B6"
  /\ IF move[d] >= 2
       THEN IF d < 1
              THEN /\ result' = "null"
                   /\ pc' = "done"
                   /\ UNCHANGED d
              ELSE /\ d' = d - 1
                   /\ UNCHANGED <<result, pc>>
       ELSE /\ pc' = "B5"
            /\ UNCHANGED <<result, d>>
  /\ UNCHANGED <<formula, solution, m, n, p, i, store, l, j>>
  /\ UNCHANGED aux

\* A slip: B5 re-enters B3 without flipping move[d].
B5_NoFlip ==
  /\ pc = "B5"
  /\ l' = 2 * d + (move[d] % 2)
  /\ j' = watch[Complement(2 * d + (move[d] % 2))]
  /\ pc' = "B3"
  /\ UNCHANGED <<formula, result, solution, m, n, p, i, store, d>>
  /\ UNCHANGED aux

\* A slip: B5 sets the retry bit and leaves the polarity bit as it is.
B5_XorTwo ==
  /\ pc = "B5"
  /\ LET mv == (move[d] + 2) % 4
     IN  /\ move' = [move EXCEPT ![d] = mv]
         /\ l' = 2 * d + (mv % 2)
         /\ j' = watch[Complement(2 * d + (mv % 2))]
  /\ pc' = "B3"
  /\ UNCHANGED <<formula, result, solution, m, n, p, i,
                 literals, start, watch, next, d>>
  /\ UNCHANGED aux

\* A slip: B5 complements the literal it holds instead of deriving it from
\* the depth B6 has arrived at.
B5_StaleLiteral ==
  /\ pc = "B5"
  /\ move' = [move EXCEPT ![d] = 3 - move[d]]
  /\ l' = Complement(l)
  /\ j' = watch[l]
  /\ pc' = "B3"
  /\ UNCHANGED <<formula, result, solution, m, n, p, i,
                 literals, start, watch, next, d>>
  /\ UNCHANGED aux

\* Lines 125-129: B5, try again.
B5 ==
  /\ pc = "B5"
  /\ LET mv == 3 - move[d]    \* move[d] ^ 3, move[d] being 0..3
     IN  /\ move' = [move EXCEPT ![d] = mv]
         /\ l' = 2 * d + (mv % 2)
         /\ j' = watch[Complement(2 * d + (mv % 2))]
  /\ pc' = "B3"
  /\ UNCHANGED <<formula, result, solution, m, n, p, i,
                 literals, start, watch, next, d>>
  /\ UNCHANGED aux

\* solve called once.  The caller's variables are not the solver's.
Quiet == UNCHANGED callerVars

Next ==
  \/ Enter /\ Quiet
  \/ ScanClause /\ Quiet
  \/ Construct /\ Quiet
  \/ B2 /\ Quiet
  \/ B3 /\ Quiet
  \/ B4 /\ Quiet
  \/ B6 /\ Quiet
  \/ B5 /\ Quiet

Spec == Init /\ [][Next]_vars

-----------------------------------------------------------------------------
(* solve called twice on the same formula, the caller recording what each  *)
(* call goes through.                                                      *)

\* A step of the search, recorded.
Record == trace' = Append(trace, Snapshot') /\ UNCHANGED <<run, first>>

\* The second call: its locals are fresh, the first call's outcome is kept
\* for comparison.
CallAgain ==
  /\ pc = "done"
  /\ run = "first"
  /\ run' = "second"
  /\ first' = [result |-> result, solution |-> solution, trace |-> trace]
  /\ pc' = "enter"
  /\ result' = "pending"
  /\ solution' = <<>>
  /\ m' = 0 /\ n' = 0 /\ p' = 0 /\ i' = 0
  /\ literals' = NoArray /\ start' = NoArray /\ watch' = NoArray
  /\ next' = NoArray /\ move' = NoArray
  /\ d' = 0 /\ l' = 0 /\ j' = 0
  /\ trace' = <<>>
  /\ UNCHANGED <<formula, aux>>

TwoCallsNext ==
  \/ Enter /\ Quiet
  \/ ScanClause /\ Quiet
  \/ Construct /\ Quiet
  \/ B2 /\ Record
  \/ B3 /\ Record
  \/ B4 /\ Record
  \/ B6 /\ Record
  \/ B5 /\ Record
  \/ CallAgain

TwoCallsSpec == Init /\ [][TwoCallsNext]_vars

-----------------------------------------------------------------------------
(* The second solve of src/watched_literal_flat.mjs: validation,            *)
(* construction, B2, B3 and B4 are those of src/sat.mjs line for line; the  *)
(* retry loop b5 tests move[d] first and backtracks after.                  *)

Drivers == {"sat.mjs", "watched_literal_flat.mjs"}

\* Line 270: (d << 1) | move[d], move[d] being 0..3.
OrMove(dd, mv) ==
  2 * dd + (mv % 2) + (IF mv >= 2 /\ dd % 2 = 0 THEN 2 ELSE 0)

\* Lines 258-271: one round of the loop b5 after B3 has written j back.
FlatRetry ==
  /\ pc = "B6"
  /\ impl = "watched_literal_flat.mjs"
  /\ IF move[d] < 2
       THEN /\ move' = [move EXCEPT ![d] = 3 - move[d]]
            /\ l' = Complement(l)
            /\ j' = watch[l]
            /\ pc' = "B3"
            /\ UNCHANGED <<result, d>>
       ELSE IF d < 1
              THEN /\ result' = "null"
                   /\ pc' = "done"
                   /\ UNCHANGED <<move, d, l, j>>
              ELSE /\ d' = d - 1
                   /\ l' = OrMove(d - 1, move[d - 1])
                   /\ UNCHANGED <<result, pc, move, j>>
  /\ UNCHANGED <<formula, solution, m, n, p, i, literals, start, watch, next>>
  /\ UNCHANGED aux

\* solve of either file is called once.
DriversInit ==
  /\ RunIdle
  /\ formula \in Inputs
  /\ pc = "enter"
  /\ Fresh
  /\ run = "first"
  /\ first = NoCall
  /\ num = FromInt(1) /\ impl \in Drivers /\ cstage = "idle"
  /\ verdict = "none" /\ word = <<0, 0>> /\ back = FromInt(0)
  /\ CardIdle
  /\ RefIdle

DriversNext ==
  \/ Enter /\ Quiet
  \/ ScanClause /\ Quiet
  \/ Construct /\ Quiet
  \/ B2 /\ Quiet
  \/ B3 /\ Quiet
  \/ B4 /\ Quiet
  \/ impl = "sat.mjs" /\ B6 /\ Quiet
  \/ impl = "sat.mjs" /\ B5 /\ Quiet
  \/ FlatRetry /\ Quiet

DriversSpec == DriversInit /\ [][DriversNext]_vars

-----------------------------------------------------------------------------
(* The first solve of src/watched_literal_flat.mjs, the tracing variant:    *)
(* construction, B2, B3 and B4 are those of src/sat.mjs (the console.log    *)
(* calls change no state, and the extra range check at line 22 cannot fail  *)
(* for the variables of the inputs here); its loop b5 decrements d and      *)
(* leaves l as it is.                                                       *)

\* Lines 115-126: one round of the loop b5 after B3 has written j back.
TracingRetry ==
  /\ pc = "B6"
  /\ IF move[d] < 2
       THEN /\ move' = [move EXCEPT ![d] = 3 - move[d]]
            /\ l' = Complement(l)
            /\ j' = watch[l]
            /\ pc' = "B3"
            /\ UNCHANGED <<result, d>>
       ELSE IF d < 1
              THEN /\ result' = "null"
                   /\ pc' = "done"
                   /\ UNCHANGED <<move, d, l, j>>
              ELSE /\ d' = d - 1
                   /\ UNCHANGED <<result, pc, move, l, j>>
  /\ UNCHANGED <<formula, solution, m, n, p, i, literals, start, watch, next>>
  /\ UNCHANGED aux

TracingInit ==
  /\ RunIdle
  /\ formula \in Inputs
  /\ pc = "enter"
  /\ Fresh
  /\ run = "first"
  /\ first = NoCall
  /\ num = FromInt(1) /\ impl = "watched_literal_flat.mjs" /\ cstage = "idle"
  /\ verdict = "none" /\ word = <<0, 0>> /\ back = FromInt(0)
  /\ CardIdle
  /\ RefIdle

TracingNext ==
  \/ Enter /\ Quiet
  \/ ScanClause /\ Quiet
  \/ Construct /\ Quiet
  \/ B2 /\ Quiet
  \/ B3 /\ Quiet
  \/ B4 /\ Quiet
  \/ TracingRetry /\ Quiet

TracingSpec == TracingInit /\ [][TracingNext]_vars

-----------------------------------------------------------------------------
(* The literal codec on its own: the range check of the validation scan,   *)
(* the code word line 74 stores for a literal that passed it, and the way  *)
(* back to a signed literal, for numbers up to and beyond the 32-bit       *)
(* range.  The three solvers that share the codec differ in the check.     *)

\* Numbers are sampled within CodecSpan of 0, 2^30, 2^31 and 2^32.
CodecSpan == 8

Solvers == {"sat.mjs", "watched_literal_flat.mjs", "fast_sat.mjs"}

\* The magnitudes at most CodecSpan away from h * 2^16.
Around(h) ==
  {[hi |-> h, lo |-> q] : q \in 0..CodecSpan}
  \cup (IF h = 0 THEN {}
        ELSE {[hi |-> h - 1, lo |-> Limb - q] : q \in 1..CodecSpan})

CodecNumbers ==
  {[neg |-> s, hi |-> a.hi, lo |-> a.lo] :
     s \in BOOLEAN,
     a \in Around(0) \cup Around(HalfLimb \div 2) \cup Around(HalfLimb)
           \cup Around(Limb)}

\* 2147483649, the limit of watched_literal_flat.mjs and fast_sat.mjs.
VariableLimit == [hi |-> HalfLimb, lo |-> 1]

LessThan(a, b) == a.hi < b.hi \/ (a.hi = b.hi /\ a.lo < b.lo)

\* src/watched_literal_flat.mjs, lines 22-23.
RangeCheckFlat(variable) ==
  IF ~(variable.hi > 0 \/ variable.lo >= 1) THEN "RangeError: Invalid variable"
  ELSE IF ~LessThan(variable, VariableLimit) THEN "RangeError: Too many variables"
  ELSE "ok"

\* src/fast_sat.mjs, lines 66-67.
RangeCheckFast(v) ==
  IF ~((v.hi > 0 \/ v.lo >= 1) /\ LessThan(v, VariableLimit))
    THEN "RangeError: Invalid variable"
    ELSE "ok"

RangeErrors == {"RangeError: Invalid variable", "RangeError: Too many variables"}

\* l ^ 1 on a stored word
ComplementWord(w) == <<w[1], Complement(w[2])>>

\* ToInt32 of a stored word: what the signed operators >> and << see.
ToInt32(w) ==
  IF w[1] < HalfLimb THEN [neg |-> FALSE, hi |-> w[1], lo |-> w[2]]
  ELSE IF w[2] = 0 THEN [neg |-> TRUE, hi |-> Limb - w[1], lo |-> 0]
  ELSE [neg |-> TRUE, hi |-> Limb - 1 - w[1], lo |-> Limb - w[2]]

\* The magnitude of b, plus one.
PlusOne(b) ==
  IF b.lo + 1 = Limb THEN [b EXCEPT !.hi = b.hi + 1, !.lo = 0]
  ELSE [b EXCEPT !.lo = b.lo + 1]

\* x >> 1 on a 32-bit signed x: the floor of x / 2.
ShiftRight1(b) ==
  LET q == [neg |-> b.neg, hi |-> b.hi \div 2,
            lo |-> (b.hi % 2) * HalfLimb + b.lo \div 2]
  IN  IF b.neg /\ b.lo % 2 = 1 THEN PlusOne(q) ELSE q

\* The variable index of a stored code as the search takes it: l_p >> 1.
VariableOf(w) == ShiftRight1(ToInt32(w))

\* i + 1 for a signed number i
Successor(b) ==
  IF ~b.neg THEN PlusOne(b)
  ELSE LET r == MinusOne(b)
       IN  IF r.hi = 0 /\ r.lo = 0 THEN [r EXCEPT !.neg = FALSE] ELSE r

Negate(b) ==
  IF b.hi = 0 /\ b.lo = 0 THEN b ELSE [b EXCEPT !.neg = ~b.neg]

\* The way back from a stored code: its variable index is l >> 1, and
\* to_dimacs gives (index + 1) * (1 - ((l & 1) << 1)).
DecodeWord(w) ==
  LET v == Successor(VariableOf(w))
  IN  IF w[2] % 2 = 1 THEN Negate(v) ELSE v

CodecInit ==
  /\ RunIdle
  /\ SolverIdle
  /\ CardIdle
  /\ RefIdle
  /\ num \in CodecNumbers
  /\ impl \in Solvers
  /\ cstage = "input"
  /\ verdict = "none" /\ word = <<0, 0>> /\ back = FromInt(0)

\* The range check of the solver on Math.abs(literal).
CodecCheck ==
  /\ cstage = "input"
  /\ verdict' = CASE impl = "sat.mjs" -> RangeCheck(MathAbs(num))
                  [] impl = "watched_literal_flat.mjs" -> RangeCheckFlat(MathAbs(num))
                  [] impl = "fast_sat.mjs" -> RangeCheckFast(MathAbs(num))
  /\ cstage' = "checked"
  /\ UNCHANGED <<num, impl, word, back>>
  /\ UNCHANGED <<solverVars, callerVars, cardVars, refVars, runVars>>

\* The store for a literal that passed the check may fail to be allocated:
\* its size grows with the largest variable.
CodecAllocFails ==
  /\ cstage = "checked"
  /\ verdict = "ok"
  /\ cstage' = "failed"
  /\ verdict' = "RangeError: allocation failed"
  /\ UNCHANGED <<num, impl, word, back>>
  /\ UNCHANGED <<solverVars, callerVars, cardVars, refVars, runVars>>

\* Line 74: the literal is encoded and stored in the Uint32Array of the two
\* solvers that keep their clauses in typed arrays.
CodecEncode ==
  /\ cstage = "checked"
  /\ verdict = "ok"
  /\ impl \in {"sat.mjs", "watched_literal_flat.mjs"}
  /\ word' = EncodeWord(num)
  /\ cstage' = "encoded"
  /\ UNCHANGED <<num, impl, verdict, back>>
  /\ UNCHANGED <<solverVars, callerVars, cardVars, refVars, runVars>>

CodecDecode ==
  /\ cstage = "encoded"
  /\ back' = DecodeWord(word)
  /\ cstage' = "decoded"
  /\ UNCHANGED <<num, impl, verdict, word>>
  /\ UNCHANGED <<solverVars, callerVars, cardVars, refVars, runVars>>

CodecNext == CodecCheck \/ CodecAllocFails \/ CodecEncode \/ CodecDecode

CodecSpec == CodecInit /\ [][CodecNext]_vars

-----------------------------------------------------------------------------
(* The cardinality helpers of src/sat_2.js: the binomial encoding.         *)

Highest(S) == CHOOSE x \in S : \A y \in S : y <= x

\* One round of the for loop of combinations.  c is the index vector (entry
\* j of the code is c[j + 1] here), ii the position i the round advances.
RECURSIVE CombinationsLoop(_, _, _, _, _, _)
CombinationsLoop(k, array, sign, c, ii, out) ==
  LET nn == Len(array)
  IN  IF c[1] = nn - k THEN out
      ELSE
        LET \* ++c[i]; while(++i !== k) c[i] = c[i - 1] + 1;
            c1 == [q \in 1..k |-> IF q - 1 < ii THEN c[q]
                                  ELSE c[ii + 1] + 1 + (q - 1 - ii)]
            combination == [q \in 1..k |-> array[c1[q] + 1] * sign]
            \* while(c[--i] === n + i - k);
            below == {q \in 0..(k - 1) : c1[q + 1] # nn + q - k}
            i1 == IF below = {} THEN -1 ELSE Highest(below)
        IN  CombinationsLoop(k, array, sign, c1, i1, Append(out, combination))

\* A slip: the sign is dropped, every clause keeps the literals as given.
combinations_NoSign(k, array, sign) ==
  IF ~(k >= 1 /\ k <= Len(array)) THEN <<>>
  ELSE CombinationsLoop(k, array, 1, [q \in 1..k |-> -1], 0, <<>>)

combinations(k, array, sign) ==
  IF ~(k >= 1 /\ k <= Len(array)) THEN <<>>
  ELSE CombinationsLoop(k, array, sign, [q \in 1..k |-> -1], 0, <<>>)

\* A slip: the clauses are as wide as k, not k + 1.
at_most_WidthK(k, lits) == combinations(k, lits, -1)

at_most(k, lits) == combinations(k + 1, lits, -1)

\* A slip: the + 1 of the clause width is missing.
at_least_NoPlusOne(k, lits) == combinations(Len(lits) - k, lits, 1)

at_least(k, lits) == combinations(Len(lits) - k + 1, lits, 1)

\* A slip: the two clause lists are concatenated the other way round.
exactly_AtLeastFirst(k, lits) == at_least(k, lits) \o at_most(k, lits)

exactly(k, lits) == at_most(k, lits) \o at_least(k, lits)

LiteralLists == UNION {[1..len -> Lits] : len \in 0..MaxList}

CardInit ==
  /\ RunIdle
  /\ SolverIdle
  /\ CodecIdle
  /\ RefIdle
  /\ cop \in {"at_most", "at_least", "exactly"}
  /\ ck \in -1..(MaxList + 2)
  /\ cls \in LiteralLists
  /\ cout = NotReturned

AtMost ==
  /\ cop = "at_most"
  /\ ~cout.returned
  /\ cout' = Returned(at_most(ck, cls))
  /\ UNCHANGED <<cop, ck, cls>>
  /\ UNCHANGED <<solverVars, callerVars, codecVars, refVars, runVars>>

AtLeast ==
  /\ cop = "at_least"
  /\ ~cout.returned
  /\ cout' = Returned(at_least(ck, cls))
  /\ UNCHANGED <<cop, ck, cls>>
  /\ UNCHANGED <<solverVars, callerVars, codecVars, refVars, runVars>>

Exactly ==
  /\ cop = "exactly"
  /\ ~cout.returned
  /\ cout' = Returned(exactly(ck, cls))
  /\ UNCHANGED <<cop, ck, cls>>
  /\ UNCHANGED <<solverVars, callerVars, codecVars, refVars, runVars>>

CardNext == AtMost \/ AtLeast \/ Exactly

CardSpec == CardInit /\ [][CardNext]_vars

-----------------------------------------------------------------------------
(* The reference solver that returns every solution: solve() of            *)
(* src/sat_2.js, and the variant of src/sat.mjs that appends.              *)

\* The integers in the clause arrays of a formula: of a well-formed formula,
\* its clause lists.
PlainOf(f) ==
  [c \in 1..Len(f.cs) |-> [k \in 1..Len(f.cs[c].ls) |-> f.cs[c].ls[k].v]]

RefFormulas == {PlainOf(f) : f \in SmallFormulas \cup TestFormulas}

\* The scan of simplify_clause from position k on: null when the literal is
\* met, the clause without the negated literal otherwise.
RECURSIVE SimplifyFrom(_, _, _, _)
SimplifyFrom(clause, literal, k, kept) ==
  IF k > Len(clause) THEN Value(kept)
  ELSE IF clause[k] = literal THEN Null
  ELSE IF clause[k] # -literal THEN SimplifyFrom(clause, literal, k + 1, Append(kept, clause[k]))
  ELSE SimplifyFrom(clause, literal, k + 1, kept)

\* A slip: the sign is not looked at, the negated literal satisfies the clause
\* as well.
simplify_clause_AnySign(clause, literal) ==
  IF \E k \in 1..Len(clause) : Abs(clause[k]) = Abs(literal) THEN Null
  ELSE Value(clause)

simplify_clause(clause, literal) == SimplifyFrom(clause, literal, 1, <<>>)

\* The loop of simplify_formula from clause k on.
RECURSIVE SimplifyFormulaFrom(_, _, _, _)
SimplifyFormulaFrom(f, literal, k, kept) ==
  IF k > Len(f) THEN Value(kept)
  ELSE LET c == simplify_clause(f[k], literal)
       IN  IF c.null THEN SimplifyFormulaFrom(f, literal, k + 1, kept)
           ELSE IF Len(c.v) = 0 THEN Null
           ELSE SimplifyFormulaFrom(f, literal, k + 1, Append(kept, c.v))

simplify_formula(f, literal) == SimplifyFormulaFrom(f, literal, 1, <<>>)

-----------------------------------------------------------------------------
(* simplify_clause with its arrays: what it returns, whether the array it  *)
(* returns is the array it was given (same), and the contents of the array *)
(* it was given once it has returned (arg).                                *)

\* src/sat.mjs, lines 460-466: the number of times the clause holds -literal.
CountNegated(clause, literal) ==
  Cardinality({k \in 1..Len(clause) : clause[k] = -literal})

\* src/sat.mjs, lines 473-479: the new array, filled from its last slot with
\* the literals of clause[1..i] that are not -literal.
RECURSIVE FillBackwards(_, _, _)
FillBackwards(clause, literal, k) ==
  IF k = 0 THEN <<>>
  ELSE FillBackwards(clause, literal, k - 1)
         \o (IF clause[k] # -literal THEN <<clause[k]>> ELSE <<>>)

\* src/sat.mjs, lines 455-482.
simplify_clause_mjs(clause, literal) ==
  IF \E k \in 1..Len(clause) : clause[k] = literal
    THEN [null |-> TRUE, v |-> <<>>, same |-> FALSE, arg |-> clause]
  ELSE IF CountNegated(clause, literal) = 0
    THEN [null |-> FALSE, v |-> clause, same |-> TRUE, arg |-> clause]
  ELSE [null |-> FALSE, v |-> FillBackwards(clause, literal, Len(clause)),
        same |-> FALSE, arg |-> clause]

\* src/sat_2.js, lines 51-57: the copy is compacted in place from slot j on
\* while position k scans on, then cut to the slots written.
RECURSIVE Compact(_, _, _, _)
Compact(copy, literal, k, slot) ==
  IF k > Len(copy) THEN Value(SubSeq(copy, 1, slot - 1))
  ELSE IF copy[k] = literal THEN Null
  ELSE IF copy[k] # -literal
    THEN Compact([copy EXCEPT ![slot] = copy[k]], literal, k + 1, slot + 1)
  ELSE Compact(copy, literal, k + 1, slot)

\* A slip: no copy is made, the clause given is compacted in place.
RECURSIVE ScanThenCompact_InPlace(_, _, _)
ScanThenCompact_InPlace(clause, literal, k) ==
  IF k > Len(clause)
    THEN [null |-> FALSE, v |-> clause, same |-> TRUE, arg |-> clause]
  ELSE IF clause[k] = literal
    THEN [null |-> TRUE, v |-> <<>>, same |-> FALSE, arg |-> clause]
  ELSE IF clause[k] # -literal THEN ScanThenCompact_InPlace(clause, literal, k + 1)
  ELSE LET r == Compact(clause, literal, k + 1, k)
       IN  [null |-> r.null, v |-> r.v, same |-> ~r.null,
            arg |-> IF r.null THEN clause ELSE r.v]

\* src/sat_2.js, lines 43-61: the scan up to the first -literal, then the
\* compaction of a copy (line 48, clause.slice()).
RECURSIVE ScanThenCompact(_, _, _)
ScanThenCompact(clause, literal, k) ==
  IF k > Len(clause)
    THEN [null |-> FALSE, v |-> clause, same |-> TRUE, arg |-> clause]
  ELSE IF clause[k] = literal
    THEN [null |-> TRUE, v |-> <<>>, same |-> FALSE, arg |-> clause]
  ELSE IF clause[k] # -literal THEN ScanThenCompact(clause, literal, k + 1)
  ELSE LET r == Compact(clause, literal, k + 1, k)
       IN  [null |-> r.null, v |-> r.v, same |-> FALSE, arg |-> clause]

\* src/sat_2.js, lines 40-62.
simplify_clause_js(clause, literal) == ScanThenCompact(clause, literal, 1)

\* simplify_formula writes to its new array f alone; its argument holds the
\* clause arrays as the calls of simplify_clause left them.
RECURSIVE ArgAfter(_, _, _, _)
ArgAfter(f, literal, k, js) ==
  IF k > Len(f) THEN <<>>
  ELSE <<IF js THEN simplify_clause_js(f[k], literal).arg
               ELSE simplify_clause_mjs(f[k], literal).arg>>
         \o ArgAfter(f, literal, k + 1, js)

\* Clauses of up to MaxLits literals, repeated literals included.
RECURSIVE ClausesUpTo(_)
ClausesUpTo(len) ==
  IF len = 0 THEN {<<>>}
  ELSE ClausesUpTo(len - 1)
         \cup {Append(cl, x) : cl \in {c \in ClausesUpTo(len - 1) : Len(c) = len - 1},
                               x \in Lits}

SimplifyInit ==
  /\ RunIdle
  /\ SolverIdle
  /\ CodecIdle
  /\ CardIdle
  /\ \/ /\ rop \in {"sat.mjs simplify_clause", "sat_2.js simplify_clause"}
        /\ rin \in {Value([x |-> cl, literal |-> y]) :
                      cl \in ClausesUpTo(MaxLits), y \in Lits}
     \/ /\ rop \in {"sat.mjs simplify_formula", "sat_2.js simplify_formula"}
        /\ rin \in {Value([x |-> f, literal |-> y]) : f \in RefFormulas, y \in Lits}
  /\ rout = NothingReturned

SimplifyClauseMjs ==
  /\ rop = "sat.mjs simplify_clause"
  /\ ~rout.returned
  /\ rout' = [returned |-> TRUE,
              value |-> Value(simplify_clause_mjs(rin.v.x, rin.v.literal))]
  /\ UNCHANGED <<rop, rin>>
  /\ UNCHANGED <<solverVars, callerVars, codecVars, cardVars, runVars>>

SimplifyClauseJs ==
  /\ rop = "sat_2.js simplify_clause"
  /\ ~rout.returned
  /\ rout' = [returned |-> TRUE,
              value |-> Value(simplify_clause_js(rin.v.x, rin.v.literal))]
  /\ UNCHANGED <<rop, rin>>
  /\ UNCHANGED <<solverVars, callerVars, codecVars, cardVars, runVars>>

SimplifyFormula ==
  /\ rop \in {"sat.mjs simplify_formula", "sat_2.js simplify_formula"}
  /\ ~rout.returned
  /\ rout' = [returned |-> TRUE,
              value |-> Value([r |-> simplify_formula(rin.v.x, rin.v.literal),
                               arg |-> ArgAfter(rin.v.x, rin.v.literal, 1,
                                                rop = "sat_2.js simplify_formula")])]
  /\ UNCHANGED <<rop, rin>>
  /\ UNCHANGED <<solverVars, callerVars, codecVars, cardVars, runVars>>

SimplifyNext == SimplifyClauseMjs \/ SimplifyClauseJs \/ SimplifyFormula

SimplifySpec == SimplifyInit /\ [][SimplifyNext]_vars

\* A slip: the literal is put in front of every solution twice.
prepend_Twice(solutions, literal) ==
  [k \in 1..Len(solutions) |-> <<literal, literal>> \o solutions[k]]

\* solutions[i].unshift(literal) for every i
prepend(solutions, literal) ==
  [k \in 1..Len(solutions) |-> <<literal>> \o solutions[k]]

\* solution.push(literal) for every solution (src/sat.mjs, line 508)
append(solutions, literal) ==
  [k \in 1..Len(solutions) |-> Append(solutions[k], literal)]

\* A slip: only the branch on the literal is searched, not the one on its
\* negation.
RECURSIVE solve_FirstBranchOnly(_)
solve_FirstBranchOnly(f) ==
  IF f.null THEN <<>>
  ELSE IF Len(f.v) = 0 THEN << <<>> >>
  ELSE LET lit == f.v[1][1]
       IN  prepend(solve_FirstBranchOnly(simplify_formula(f.v, lit)), lit)

RECURSIVE solve(_)
solve(f) ==
  IF f.null THEN <<>>
  ELSE IF Len(f.v) = 0 THEN << <<>> >>
  ELSE LET lit == f.v[1][1]
       IN  prepend(solve(simplify_formula(f.v, lit)), lit)
           \o prepend(solve(simplify_formula(f.v, -lit)), -lit)

\* solve of src/sat.mjs, line 516: the same search, literals appended.
RECURSIVE solve_append(_)
solve_append(f) ==
  IF f.null THEN <<>>
  ELSE IF Len(f.v) = 0 THEN << <<>> >>
  ELSE LET lit == f.v[1][1]
       IN  append(solve_append(simplify_formula(f.v, lit)), lit)
           \o append(solve_append(simplify_formula(f.v, -lit)), -lit)

-----------------------------------------------------------------------------
(* The reference solver with unit propagation: sat() of src/sat.js.  The   *)
(* working copy of the formula is a sequence of slots, each null or a      *)
(* clause; open and closed hold clause indices (from 0) and literals.      *)

\* The (clause index, variable) pairs of a formula in scanning order.
RECURSIVE Occurrences(_, _)
Occurrences(f, c) ==
  IF c > Len(f) THEN <<>>
  ELSE [k \in 1..Len(f[c]) |-> [clause |-> c - 1, variable |-> Abs(f[c][k])]]
       \o Occurrences(f, c + 1)

\* The clause indices of a sequence of pairs that belong to variable v.
RECURSIVE ClausesWith(_, _)
ClausesWith(occ, v) ==
  IF occ = <<>> THEN <<>>
  ELSE (IF Head(occ).variable = v THEN <<Head(occ).clause>> ELSE <<>>)
       \o ClausesWith(Tail(occ), v)

\* adjacent[v - 1] lists the clauses variable v occurs in, once per
\* occurrence; there are as many rows as the largest variable.
adjacent(f) ==
  LET occ == Occurrences(f, 1)
      rows == IF occ = <<>> THEN 0
              ELSE Highest({occ[k].variable : k \in 1..Len(occ)})
  IN  [v \in 1..rows |-> ClausesWith(occ, v)]

\* The indices of the unit clauses, ascending.
RECURSIVE UnitFrom(_, _)
UnitFrom(f, c) ==
  IF c > Len(f) THEN <<>>
  ELSE (IF Len(f[c]) = 1 THEN <<c - 1>> ELSE <<>>) \o UnitFrom(f, c + 1)

unit(f) == UnitFrom(f, 1)

\* A slip: the sign is not looked at, a clause that holds the negated
\* literal counts as satisfied.
simplify_AnySign(clause, literal) ==
  IF \E k \in 1..Len(clause) : Abs(clause[k]) = Abs(literal) THEN Null
  ELSE Value(clause)

\* simplify of src/sat.js: null when the clause holds the literal, else the
\* clause without the negated literal.
simplify(clause, literal) == SimplifyFrom(clause, literal, 1, <<>>)

\* The inner loop of unit_propagate over the clauses js[k..] of the
\* literal's variable.
RECURSIVE PropagateOver(_, _, _, _, _)
PropagateOver(slots, js, k, literal, open) ==
  IF k > Len(js) THEN [ok |-> TRUE, slots |-> slots, open |-> open]
  ELSE
    LET jj == js[k]
        clause == slots[jj + 1]
    IN  IF clause.null THEN PropagateOver(slots, js, k + 1, literal, open)
        ELSE
          LET simplified == simplify(clause.v, literal)
          IN  IF ~simplified.null /\ Len(simplified.v) = 0
                THEN [ok |-> FALSE, slots |-> slots, open |-> <<>>]
                ELSE PropagateOver(
                       [slots EXCEPT ![jj + 1] = simplified], js, k + 1, literal,
                       IF ~simplified.null /\ Len(simplified.v) = 1
                         THEN Append(open, jj) ELSE open)

RECURSIVE unit_propagate(_, _, _, _)
unit_propagate(slots, adj, open, closed) ==
  IF open = <<>>
    THEN [ok |-> TRUE, slots |-> slots, open |-> open, closed |-> closed]
  ELSE
    LET ii == Head(open)
        clause == slots[ii + 1]
    IN  IF clause.null THEN unit_propagate(slots, adj, Tail(open), closed)
        ELSE
          LET literal == clause.v[1]
              r == PropagateOver([slots EXCEPT ![ii + 1] = Null],
                                 adj[Abs(literal)], 1, literal, Tail(open))
          IN  IF ~r.ok
                THEN [ok |-> FALSE, slots |-> r.slots, open |-> <<>>,
                      closed |-> Append(closed, literal)]
                ELSE unit_propagate(r.slots, adj, r.open, Append(closed, literal))

\* A slip: after a failed guess closed is not cut back to what was known
\* before the guess.
RECURSIVE sat_recursive_KeepClosed(_, _, _, _)
sat_recursive_KeepClosed(slots, adj, open, closed) ==
  LET up == unit_propagate(slots, adj, open, closed)
      defined == {k \in 1..Len(up.slots) : ~up.slots[k].null}
  IN  IF ~up.ok THEN [ok |-> FALSE, open |-> up.open, closed |-> up.closed]
      ELSE IF defined = {} THEN [ok |-> TRUE, open |-> up.open, closed |-> up.closed]
      ELSE
        LET formula_length == Len(up.slots)
            guess == up.slots[Lowest(defined)].v[1]
            r == sat_recursive_KeepClosed(Append(up.slots, Value(<<guess>>)), adj,
                                          Append(up.open, formula_length), up.closed)
        IN  IF r.ok THEN r
            ELSE sat_recursive_KeepClosed(Append(up.slots, Value(<<-guess>>)), adj,
                                          <<formula_length>>, r.closed)

\* sat_recursive: one round of its loop and what follows.  The copy the
\* function makes of the formula is the value slots here.
RECURSIVE sat_recursive(_, _, _, _)
sat_recursive(slots, adj, open, closed) ==
  LET up == unit_propagate(slots, adj, open, closed)
      defined == {k \in 1..Len(up.slots) : ~up.slots[k].null}
  IN  IF ~up.ok THEN [ok |-> FALSE, open |-> up.open, closed |-> up.closed]
      ELSE IF defined = {} THEN [ok |-> TRUE, open |-> up.open, closed |-> up.closed]
      ELSE
        LET formula_length == Len(up.slots)
            closed_length == Len(up.closed)
            guess == up.slots[Lowest(defined)].v[1]
            r == sat_recursive(Append(up.slots, Value(<<guess>>)), adj,
                               Append(up.open, formula_length), up.closed)
        IN  IF r.ok THEN r
            ELSE sat_recursive(Append(up.slots, Value(<<-guess>>)), adj,
                               <<formula_length>>,
                               SubSeq(r.closed, 1, closed_length))

\* closed.sort(by_variable_ascending): a stable sort on the variable.
RECURSIVE SortByVariable(_)
SortByVariable(s) ==
  IF s = <<>> THEN <<>>
  ELSE LET rest == SortByVariable(Tail(s))
           before == {k \in 1..Len(rest) : Abs(rest[k]) < Abs(Head(s))}
           at == IF before = {} THEN 0 ELSE Highest(before)
       IN  SubSeq(rest, 1, at) \o <<Head(s)>> \o SubSeq(rest, at + 1, Len(rest))

\* The slots sat_recursive starts from: the clauses of the formula, none
\* null, as a sequence.
RECURSIVE SlotsFrom(_, _)
SlotsFrom(f, c) ==
  IF c > Len(f) THEN <<>> ELSE <<Value(f[c])>> \o SlotsFrom(f, c + 1)

Slots(f) == SlotsFrom(f, 1)

\* How a call of sat ends: with a list, with null, or with an Error thrown.
Returns(x) == [thrown |-> "none", null |-> FALSE, v |-> x]
ReturnsNull == [thrown |-> "none", null |-> TRUE, v |-> <<>>]
Throws(e) == [thrown |-> e, null |-> FALSE, v |-> <<>>]

\* Lines 23-28: Number.isInteger(literal) && literal !== 0.
validate_literal(x) == x.int /\ x.v # 0

\* Lines 30-33: what validating a clause throws, "ok" when nothing.  A
\* clause that is no array throws before its elements are looked at.
validate_clause(c) ==
  IF ~c.arr THEN "Error: Expected a clause to be an Array"
  ELSE IF \E k \in 1..Len(c.ls) : ~validate_literal(c.ls[k])
    THEN "Error: Expected a literal to be a positive or negative integer"
  ELSE "ok"

\* formula.forEach(validate_clause), from clause c on: the first throw.
RECURSIVE ValidateFrom(_, _)
ValidateFrom(f, c) ==
  IF c > Len(f.cs) THEN "ok"
  ELSE IF validate_clause(f.cs[c]) # "ok" THEN validate_clause(f.cs[c])
  ELSE ValidateFrom(f, c + 1)

\* Lines 35-38.  assert (line 4) throws an Error whatever constructor it
\* is handed.
validate_formula(f) ==
  IF ~f.arr THEN "Error: Expected a formula to be an Array"
  ELSE ValidateFrom(f, 1)

\* Lines 170-188: sat on the value it is passed.
sat(f) ==
  IF validate_formula(f) # "ok" THEN Throws(validate_formula(f))
  ELSE LET g == PlainOf(f)
       IN  IF Len(g) = 0 THEN Returns(<<>>)
           ELSE IF \E c \in 1..Len(g) : Len(g[c]) = 0 THEN ReturnsNull
           ELSE LET r == sat_recursive(Slots(g), adjacent(g), unit(g), <<>>)
                IN  IF r.ok THEN Returns(SortByVariable(r.closed)) ELSE ReturnsNull

\* Formulas with an empty clause somewhere.
WithEmptyClause ==
  UNION {{SubSeq(f, 1, k) \o << <<>> >> \o SubSeq(f, k + 1, Len(f)) : k \in 0..Len(f)} :
           f \in SubSeqs(Simple2SAT)}

SatFormulas == RefFormulas \cup WithEmptyClause

\* What sat is called on: those formulas as JavaScript values, and values
\* with malformed parts.
SatInputs == {WellFormed(f) : f \in SatFormulas} \cup RawFormulas

RefInit ==
  /\ RunIdle
  /\ SolverIdle
  /\ CodecIdle
  /\ CardIdle
  /\ \/ rop \in {"solve", "solve_append"} /\ rin \in {Null} \cup {Value(f) : f \in RefFormulas}
     \/ rop = "sat" /\ rin \in {Value(f) : f \in SatInputs}
  /\ rout = NothingReturned

Solve ==
  /\ rop = "solve"
  /\ ~rout.returned
  /\ rout' = [returned |-> TRUE, value |-> Value(solve(rin))]
  /\ UNCHANGED <<rop, rin>>
  /\ UNCHANGED <<solverVars, callerVars, codecVars, cardVars, runVars>>

SolveAppend ==
  /\ rop = "solve_append"
  /\ ~rout.returned
  /\ rout' = [returned |-> TRUE, value |-> Value(solve_append(rin))]
  /\ UNCHANGED <<rop, rin>>
  /\ UNCHANGED <<solverVars, callerVars, codecVars, cardVars, runVars>>

Sat ==
  /\ rop = "sat"
  /\ ~rout.returned
  /\ rout' = [returned |-> TRUE, value |-> sat(rin.v)]
  /\ UNCHANGED <<rop, rin>>
  /\ UNCHANGED <<solverVars, callerVars, codecVars, cardVars, runVars>>

RefNext == Solve \/ SolveAppend \/ Sat

RefSpec == RefInit /\ [][RefNext]_vars

\* The watched solver and sat are called on the same well-formed formula.
BothInit ==
  /\ RunIdle
  /\ formula \in SmallFormulas \cup TestFormulas
  /\ pc = "enter"
  /\ Fresh
  /\ run = "first"
  /\ first = NoCall
  /\ CodecIdle
  /\ CardIdle
  /\ rop = "sat"
  /\ rin = Value(formula)
  /\ rout = NothingReturned

BothNext ==
  \/ Enter /\ Quiet
  \/ ScanClause /\ Quiet
  \/ Construct /\ Quiet
  \/ B2 /\ Quiet
  \/ B3 /\ Quiet
  \/ B4 /\ Quiet
  \/ B6 /\ Quiet
  \/ B5 /\ Quiet
  \/ Sat

BothSpec == BothInit /\ [][BothNext]_vars

-----------------------------------------------------------------------------
(* A run of sat step by step, with its arrays.  src/sat.js keeps indices   *)
(* of clauses in open, src/unnamed/part_004 keeps literals; the rest of    *)
(* the two is the same.  A clause array is named by its place in arrays, a *)
(* formula array by its place in copies; copies[1] is the array the user   *)
(* passed and arrays[1..] are its clauses.                                 *)

RunVariants == {"sat.js", "unnamed/part_004"}

ByIndex == impl = "sat.js"

\* The references 1..k, in order.
RECURSIVE Refs(_)
Refs(k) == IF k = 0 THEN <<>> ELSE Append(Refs(k - 1), k)

\* unit of src/unnamed/part_004: the literals of the unit clauses.
RECURSIVE UnitLiteralsFrom(_, _)
UnitLiteralsFrom(f, c) ==
  IF c > Len(f) THEN <<>>
  ELSE (IF Len(f[c]) = 1 THEN <<f[c][1]>> ELSE <<>>) \o UnitLiteralsFrom(f, c + 1)

\* The call of sat_recursive under way, and its formula array.
TopFrame == frames[Len(frames)]
Current == copies[TopFrame.formula]

\* The places of a formula array that hold a clause.
Defined(slots) == {k \in 1..Len(slots) : slots[k] # 0}

\* A slip: sat_recursive works on the array it is given.
Call_NoCopy(heap, ref) == [copies |-> heap, formula |-> ref]

\* Entry to sat_recursive, line 132: formula = formula.slice().
Call(heap, ref) == [copies |-> Append(heap, heap[ref]), formula |-> Len(heap) + 1]

NewFrame(ref) ==
  [formula |-> ref, formula_length |-> 0, closed_length |-> 0, clause |-> 0]

\* A slip: the entry added last is taken.
Shift_Last(q) == [item |-> q[Len(q)], rest |-> SubSeq(q, 1, Len(q) - 1)]

\* open.shift()
Shift(q) == [item |-> Head(q), rest |-> Tail(q)]

\* The for loop of unit_propagate (lines 108-119) over the clauses js[k..]
\* of the literal's variable; simplify makes a new array each time.
RECURSIVE SimplifyAdjacent(_, _, _, _, _, _, _)
SimplifyAdjacent(slots, heap, js, k, literal, q, byIndex) ==
  IF k > Len(js) THEN [ok |-> TRUE, slots |-> slots, heap |-> heap, open |-> q]
  ELSE
    LET jj == js[k]
        ref == slots[jj + 1]
    IN  IF ref = 0 THEN SimplifyAdjacent(slots, heap, js, k + 1, literal, q, byIndex)
        ELSE
          LET simplified == simplify(heap[ref], literal)
          IN  IF simplified.null
                THEN SimplifyAdjacent([slots EXCEPT ![jj + 1] = 0], heap, js, k + 1,
                                      literal, q, byIndex)
              ELSE IF Len(simplified.v) = 0
                THEN [ok |-> FALSE, slots |-> slots, heap |-> heap, open |-> <<>>]
              ELSE SimplifyAdjacent(
                     [slots EXCEPT ![jj + 1] = Len(heap) + 1],
                     Append(heap, simplified.v), js, k + 1, literal,
                     IF Len(simplified.v) = 1
                       THEN Append(q, IF byIndex THEN jj ELSE simplified.v[1])
                       ELSE q,
                     byIndex)

RunInit ==
  /\ SolverIdle
  /\ num = FromInt(1) /\ impl \in RunVariants /\ cstage = "idle"
  /\ verdict = "none" /\ word = <<0, 0>> /\ back = FromInt(0)
  /\ CardIdle
  /\ rop = "sat"
  /\ rin \in {Value(f) : f \in SatInputs}
  /\ rout = NothingReturned
  /\ arrays = PlainOf(rin.v)
  /\ copies = <<Refs(Len(PlainOf(rin.v)))>>
  /\ frames = <<>> /\ adjacency = <<>> /\ openList = <<>> /\ closedList = <<>>
  /\ phase = "enter"

Foreign == <<solverVars, callerVars, codecVars, cardVars>>

\* sat, lines 170-182: the validation, the trivial cases, then the first
\* call of sat_recursive on the user's array.
SatCall ==
  /\ phase = "enter"
  /\ IF validate_formula(rin.v) # "ok"
       THEN /\ rout' = [returned |-> TRUE, value |-> Throws(validate_formula(rin.v))]
            /\ phase' = "done"
            /\ UNCHANGED <<arrays, copies, frames, adjacency, openList, closedList>>
     ELSE IF Len(arrays) = 0 \/ \E c \in 1..Len(arrays) : Len(arrays[c]) = 0
       THEN /\ rout' = [returned |-> TRUE,
                        value |-> IF Len(arrays) = 0 THEN Returns(<<>>) ELSE ReturnsNull]
            /\ phase' = "done"
            /\ UNCHANGED <<arrays, copies, frames, adjacency, openList, closedList>>
       ELSE /\ adjacency' = adjacent(arrays)
            /\ openList' = (IF ByIndex THEN unit(arrays) ELSE UnitLiteralsFrom(arrays, 1))
            /\ closedList' = <<>>
            /\ copies' = Call(copies, 1).copies
            /\ frames' = <<NewFrame(Call(copies, 1).formula)>>
            /\ phase' = "propagate"
            /\ UNCHANGED <<arrays, rout>>
  /\ UNCHANGED <<rop, rin>>
  /\ UNCHANGED Foreign

\* One round of the while loop of unit_propagate, lines 98-120.
PropagateStep ==
  /\ phase = "propagate"
  /\ openList # <<>>
  /\ LET slots == Current
         taken == Shift(openList)
         skip == IF ByIndex THEN slots[taken.item + 1] = 0
                            ELSE \E k \in 1..Len(closedList) : closedList[k] = taken.item
     IN  IF skip
           THEN /\ openList' = taken.rest
                /\ UNCHANGED <<arrays, copies, closedList, phase>>
           ELSE LET literal == IF ByIndex THEN arrays[slots[taken.item + 1]][1]
                                          ELSE taken.item
                    cleared == IF ByIndex THEN [slots EXCEPT ![taken.item + 1] = 0]
                                          ELSE slots
                    r == SimplifyAdjacent(cleared, arrays, adjacency[Abs(literal)], 1,
                                          literal, taken.rest, ByIndex)
                IN  /\ closedList' = Append(closedList, literal)
                    /\ copies' = [copies EXCEPT ![TopFrame.formula] = r.slots]
                    /\ arrays' = r.heap
                    /\ openList' = r.open
                    /\ phase' = IF r.ok THEN "propagate" ELSE "failed"
  /\ UNCHANGED <<frames, adjacency>>
  /\ UNCHANGED refVars
  /\ UNCHANGED Foreign

\* open is empty: unit_propagate returns true (line 122).
PropagateDone ==
  /\ phase = "propagate"
  /\ openList = <<>>
  /\ phase' = "choose"
  /\ UNCHANGED <<arrays, copies, frames, adjacency, openList, closedList>>
  /\ UNCHANGED refVars
  /\ UNCHANGED Foreign

\* Lines 141-152: a clause is left; its first literal is guessed and
\* sat_recursive calls itself.
Guess ==
  /\ phase = "choose"
  /\ Defined(Current) # {}
  /\ LET slots == Current
         chosen == slots[Lowest(Defined(slots))]
         guess == arrays[chosen][1]
         formula_length == Len(slots)
         pushed == IF ByIndex THEN Append(slots, Len(arrays) + 1) ELSE slots
         mine == [copies EXCEPT ![TopFrame.formula] = pushed]
         caller == [TopFrame EXCEPT !.formula_length = formula_length,
                                    !.closed_length = Len(closedList),
                                    !.clause = chosen]
         callee == Call(mine, TopFrame.formula)
     IN  /\ arrays' = (IF ByIndex THEN Append(arrays, <<guess>>) ELSE arrays)
         /\ openList' = Append(openList, IF ByIndex THEN formula_length ELSE guess)
         /\ copies' = callee.copies
         /\ frames' = Append([frames EXCEPT ![Len(frames)] = caller],
                             NewFrame(callee.formula))
  /\ phase' = "propagate"
  /\ UNCHANGED <<adjacency, closedList>>
  /\ UNCHANGED refVars
  /\ UNCHANGED Foreign

\* Lines 142, 152, 162 and 183: no clause is left, every call breaks out
\* of its loop and returns true, and sat returns closed, sorted.
Succeed ==
  /\ phase = "choose"
  /\ Defined(Current) = {}
  /\ frames' = <<>>
  /\ closedList' = SortByVariable(closedList)
  /\ rout' = [returned |-> TRUE, value |-> Returns(SortByVariable(closedList))]
  /\ phase' = "done"
  /\ UNCHANGED <<arrays, copies, adjacency, openList>>
  /\ UNCHANGED <<rop, rin>>
  /\ UNCHANGED Foreign

\* Lines 136 and 156-159: the call returns false to a caller, which negates
\* its guess and goes round its loop.
Restore ==
  /\ phase = "failed"
  /\ Len(frames) > 1
  /\ LET caller == frames[Len(frames) - 1]
         ref == copies[caller.formula][caller.formula_length + 1]
     IN  /\ frames' = SubSeq(frames, 1, Len(frames) - 1)
         /\ arrays' = (IF ByIndex
                         THEN [arrays EXCEPT ![ref] = [@ EXCEPT ![1] = -@]]
                         ELSE arrays)
         /\ openList' = (IF ByIndex THEN <<caller.formula_length>>
                                    ELSE <<-arrays[caller.clause][1]>>)
         /\ closedList' = SubSeq(closedList, 1, caller.closed_length)
  /\ phase' = "propagate"
  /\ UNCHANGED <<copies, adjacency>>
  /\ UNCHANGED refVars
  /\ UNCHANGED Foreign

\* Lines 136 and 187: the first call returns false and sat returns null.
GiveUp ==
  /\ phase = "failed"
  /\ Len(frames) = 1
  /\ frames' = <<>>
  /\ rout' = [returned |-> TRUE, value |-> ReturnsNull]
  /\ phase' = "done"
  /\ UNCHANGED <<arrays, copies, adjacency, openList, closedList>>
  /\ UNCHANGED <<rop, rin>>
  /\ UNCHANGED Foreign

RunNext ==
  \/ SatCall
  \/ PropagateStep
  \/ PropagateDone
  \/ Guess
  \/ Succeed
  \/ Restore
  \/ GiveUp

RunSpec == RunInit /\ [][RunNext]_vars

\* The run of src/sat.js ends with what sat, computed in one go, returns.
RunAgreesWithSat ==
  (phase = "done" /\ ByIndex) => rout = [returned |-> TRUE, value |-> sat(rin.v)]

-----------------------------------------------------------------------------
(* The list-based variant: assign, backtrack and solve of src/fast_sat.mjs. *)
(* A watch list is the sequence of the clauses on it; the lists hold the    *)
(* clause arrays of the deep copy, each on one list.                        *)

\* Line 9 and line 10, on the literals of a validated formula.
to_var(x) == Abs(x)
to_idx(x) == Encode(x)

\* Math.sign.
Sign(x) == IF x > 0 THEN 1 ELSE IF x < 0 THEN -1 ELSE 0

\* Line 21: q is to be decided later than p, or its assignment is not
\* against it.
Watchable(q, pp, assignment) ==
  to_var(q) > to_var(pp) \/ assignment[to_var(q)] * Sign(q) >= 0

\* Lines 18-30: the first position after the front of the clause (1-based,
\* from position k on) that holds a watchable literal; 0 when there is none.
RECURSIVE FirstWatchable(_, _, _, _)
FirstWatchable(clause, k, pp, assignment) ==
  IF k > Len(clause) THEN 0
  ELSE IF Watchable(clause[k], pp, assignment) THEN k
  ELSE FirstWatchable(clause, k + 1, pp, assignment)

\* Lines 12-37: assign.  The while loop never comes round: after the for
\* loop, whether it has relocated the front clause or not, line 33 returns
\* false.
assign(w, assignment, pp) ==
  LET a1 == [assignment EXCEPT ![to_var(pp)] = pp]
      clauses == w[to_idx(-pp)]
  IN  IF clauses = <<>> THEN [ok |-> TRUE, watch |-> w, assignment |-> a1]
      ELSE LET clause == Head(clauses)
               k == FirstWatchable(clause, 2, pp, a1)
           IN  IF k = 0
                 THEN [ok |-> FALSE, watch |-> w, assignment |-> a1]
                 ELSE LET q == clause[k]
                          moved == [clause EXCEPT ![k] = clause[1], ![1] = q]
                      IN  [ok |-> FALSE,
                           watch |-> [w EXCEPT
                                        ![to_idx(-pp)] = Tail(clauses),
                                        ![to_idx(q)] = <<moved>> \o w[to_idx(q)]],
                           assignment |-> a1]

\* Lines 42-43: the literal tried first at a depth.
FirstLiteral(w, depth) ==
  LET v == depth + 1
  IN  IF Len(w[to_idx(v)]) < 1 \/ Len(w[to_idx(-v)]) >= 1 THEN -v ELSE v

\* Lines 39-51: backtrack.  st holds watch, assignment and solutions, all
\* three shared by every call; calls lists the arguments of every call of
\* assign, in order.
RECURSIVE backtrack(_, _)
backtrack(st, depth) ==
  IF depth >= Len(st.assignment)
    THEN [st EXCEPT !.solutions = Append(st.solutions, st.assignment)]
    ELSE LET x == FirstLiteral(st.watch, depth)
             Try(s0, lit) ==
               LET r == assign(s0.watch, s0.assignment, lit)
                   s1 == [watch |-> r.watch, assignment |-> r.assignment,
                          solutions |-> s0.solutions,
                          calls |-> Append(s0.calls,
                                           [watch |-> s0.watch,
                                            assignment |-> s0.assignment,
                                            p |-> lit])]
               IN  IF r.ok THEN backtrack(s1, depth + 1) ELSE s1
         IN  Try(Try(st, x), -x)

\* Lines 77-79: the watch lists, each clause pushed on the list of its first
\* literal.
RECURSIVE MakeWatch(_, _, _)
MakeWatch(f, c, w) ==
  IF c > Len(f) THEN w
  ELSE MakeWatch(f, c + 1,
                 [w EXCEPT ![to_idx(f[c][1])] = Append(w[to_idx(f[c][1])], f[c])])

\* Lines 55-71: the largest variable of a formula of integer literals.
CountVariables(f) ==
  Highest({0} \cup UNION {{to_var(f[c][k]) : k \in 1..Len(f[c])} :
                            c \in 1..Len(f)})

\* The clauses as sequences built anew (line 74, the deep copy).
RECURSIVE dup(_, _)
dup(a, k) == IF k > Len(a) THEN <<>> ELSE <<a[k]>> \o dup(a, k + 1)

RECURSIVE dup2(_, _)
dup2(f, c) == IF c > Len(f) THEN <<>> ELSE <<dup(f[c], 1)>> \o dup2(f, c + 1)

RECURSIVE Zeros(_)
Zeros(k) == IF k = 0 THEN <<>> ELSE <<0>> \o Zeros(k - 1)

\* Lines 53-86: solve on a well-formed formula, with the calls of assign it
\* made.
fast_search(f) ==
  IF \E c \in 1..Len(f) : Len(f[c]) = 0
    THEN [watch |-> <<>>, assignment |-> <<>>, solutions |-> <<>>,
          calls |-> <<>>]
    ELSE LET copy == dup2(f, 1)
             nn == CountVariables(copy)
             w == MakeWatch(copy, 1, [c \in 0..(2 * nn - 1) |-> <<>>])
         IN  backtrack([watch |-> w, assignment |-> Zeros(nn),
                        solutions |-> <<>>, calls |-> <<>>], 0)

fast_solve(f) == fast_search(f).solutions

\* Every call of assign that solve makes on some formula of the input set.
AssignCalls ==
  UNION {{fast_search(f).calls[k] : k \in 1..Len(fast_search(f).calls)} :
           f \in RefFormulas}

FastInit ==
  /\ RunIdle
  /\ SolverIdle
  /\ CodecIdle
  /\ CardIdle
  /\ \/ rop = "fast_solve" /\ rin \in {Value(f) : f \in RefFormulas}
     \/ rop = "assign" /\ rin \in {Value(call) : call \in AssignCalls}
  /\ rout = NothingReturned

\* solve of fast_sat.mjs is called on the formula and returns its list.
FastSolve ==
  /\ rop = "fast_solve"
  /\ ~rout.returned
  /\ rout' = [returned |-> TRUE, value |-> Value(fast_solve(rin.v))]
  /\ UNCHANGED <<rop, rin>>
  /\ UNCHANGED <<solverVars, callerVars, codecVars, cardVars, runVars>>

\* assign is called on the watch lists, the assignment and the literal; the
\* value is what it returned with the lists and the assignment it left.
FastAssign ==
  /\ rop = "assign"
  /\ ~rout.returned
  /\ rout' = [returned |-> TRUE,
              value |-> Value(assign(rin.v.watch, rin.v.assignment, rin.v.p))]
  /\ UNCHANGED <<rop, rin>>
  /\ UNCHANGED <<solverVars, callerVars, codecVars, cardVars, runVars>>

FastNext == FastSolve \/ FastAssign

FastSpec == FastInit /\ [][FastNext]_vars

-----------------------------------------------------------------------------
(* What the claims speak of, defined on the input formula alone. *)

ClauseCount(f) == Len(f.cs)

\* The slot is an array of nonzero integers, at least one.
GoodClause(c) ==
  c.arr /\ Len(c.ls) >= 1 /\ \A k \in 1..Len(c.ls) : c.ls[k].int /\ c.ls[k].v # 0

IsWellFormed(f) == f.arr /\ \A c \in 1..Len(f.cs) : GoodClause(f.cs[c])

\* The integers of a formula's literal slots.
LiteralsOf(f) ==
  UNION {{f.cs[c].ls[k].v : k \in {kk \in 1..Len(f.cs[c].ls) : f.cs[c].ls[kk].int}} :
           c \in 1..Len(f.cs)}

\* V: the largest variable of a formula, 0 when it has none.
LargestVariable(f) ==
  IF LiteralsOf(f) = {} THEN 0
  ELSE CHOOSE v \in {Abs(x) : x \in LiteralsOf(f)} :
         \A x \in LiteralsOf(f) : Abs(x) <= v

\* A total assignment of the variables 1..V: TRUE for true.
Assignments(f) == [1..LargestVariable(f) -> BOOLEAN]

TrueUnder(x, a) == IF x > 0 THEN a[x] ELSE ~a[-x]

Satisfies(a, f) ==
  \A c \in 1..Len(f.cs) : \E k \in 1..Len(f.cs[c].ls) : TrueUnder(f.cs[c].ls[k].v, a)

Satisfiable(f) == \E a \in Assignments(f) : Satisfies(a, f)

\* Some clause holds a literal twice or a literal and its negation.
HasRepeatedVariable(f) ==
  \E c \in 1..Len(f.cs) : \E k1, k2 \in 1..Len(f.cs[c].ls) :
    k1 < k2 /\ Abs(f.cs[c].ls[k1].v) = Abs(f.cs[c].ls[k2].v)

\* Some level of the search was retried with its second polarity.
Retried == \E dd \in DOMAIN move : move[dd] >= 2

-----------------------------------------------------------------------------
(* C1.  Whenever solve returns an assignment, every clause of the input    *)
(* formula holds at least one literal that the assignment makes true.      *)

C1_AssignmentSatisfies ==
  result = "assignment" =>
    \A c \in 1..Len(formula.cs) :
      \E k \in 1..Len(formula.cs[c].ls) :
        LET x == formula.cs[c].ls[k].v
        IN  Abs(x) <= Len(solution) /\ solution[Abs(x)] = x

\* An assignment returned after a retry, for a formula of three clauses or
\* more.
C1_Witness ==
  result = "assignment" /\ Retried /\ ClauseCount(formula) >= 3

-----------------------------------------------------------------------------
(* C2.  Whenever solve returns null for a well-formed formula, no total    *)
(* assignment of the variables 1..V satisfies the formula.                 *)

C2_NullMeansUnsatisfiable ==
  (result = "null" /\ IsWellFormed(formula)) => ~Satisfiable(formula)

\* null returned by B6 for a formula with a duplicate literal or a tautology.
C2_Witness ==
  /\ result = "null" /\ IsWellFormed(formula) /\ pc = "done"
  /\ HasRepeatedVariable(formula) /\ ClauseCount(formula) >= 2

-----------------------------------------------------------------------------
(* C3.  The driver terminates.  The search takes a bounded number of       *)
(* steps (at most two B3 scans, of at most m clauses each, for each node   *)
(* of the binary decision tree over the n variables), solve always has a   *)
(* next step before its end, and for a well-formed formula the end is either B2 at   *)
(* d = V, returning an assignment, or B6 at d = 0, returning null.         *)

\* solve is at one of its steps with that step's guard true: Enter at
\* "enter"; ScanClause (i < m) or Construct (i = m) at "scan"; B2 at "B2";
\* B3 (j < m) or B4 (j >= m) at "B3"; B5 and B6 at a depth that exists.
CanStep ==
  \/ pc \in {"enter", "B2"}
  \/ pc = "scan" /\ i <= m
  \/ pc \in {"B3", "B5", "B6"} /\ d \in DOMAIN move /\ j \in 0..m

\* Steps of the search per node of the decision tree: B2, two scans of up to
\* m clauses with the B4 or the failure that ends them, B5, and B6.
WorkBound == (2 ^ (n + 1)) * (2 * m + 7)

C3_Terminates ==
  /\ Len(trace) <= WorkBound
  /\ pc # "done" => CanStep
  /\ (pc = "done" /\ IsWellFormed(formula)) =>
        \/ result = "assignment" /\ d = n
        \/ result = "null" /\ d = 0 /\ move[0] >= 2

\* The search has come to its end at B6 for a formula of four variables,
\* after backtracking.
C3_Witness ==
  /\ pc = "done" /\ IsWellFormed(formula) /\ result = "null" /\ d = 0 /\ n >= 4
  /\ Len(trace) > 4 * n

-----------------------------------------------------------------------------
(* C5.  On SAT solve returns exactly V entries, V being the largest        *)
(* |literal| of the input; entry k is +k when move[k-1] is even and -k     *)
(* when it is odd, also for variables that occur in no clause.  For the    *)
(* empty formula the result is the empty sequence, not null.               *)

UnusedVariables(f) ==
  {k \in 1..LargestVariable(f) : k \notin {Abs(x) : x \in LiteralsOf(f)}}

C5_ResultMapping ==
  /\ result = "assignment" =>
       /\ Len(solution) = LargestVariable(formula)
       /\ \A k \in 1..Len(solution) :
            solution[k] = IF move[k - 1] % 2 = 0 THEN k ELSE -k
  /\ (pc = "done" /\ formula = FormulaOf(<<>>)) =>
       result = "assignment" /\ solution = <<>>

\* An assignment returned after a retry for a formula that leaves a variable
\* unused.
C5_Witness ==
  result = "assignment" /\ Retried /\ UnusedVariables(formula) # {}

-----------------------------------------------------------------------------
(* The parts of a formula the validation claims speak of. *)

EmptyClause(c) == c.arr /\ Len(c.ls) = 0

\* The clause slot is no array, or holds a literal that is no integer or zero.
BadClause(c) ==
  ~c.arr \/ \E k \in 1..Len(c.ls) : ~c.ls[k].int \/ c.ls[k].v = 0

\* The clauses (1-based) of a kind, and the first of them.
EmptyAt(f) == {c \in 1..Len(f.cs) : EmptyClause(f.cs[c])}
BadAt(f) == {c \in 1..Len(f.cs) : BadClause(f.cs[c])}
First(S) == CHOOSE c \in S : \A c2 \in S : c <= c2

\* The scan reaches an empty clause before anything malformed.
EmptyComesFirst(f) ==
  /\ f.arr /\ EmptyAt(f) # {}
  /\ \A c \in BadAt(f) : First(EmptyAt(f)) < c

\* The scan reaches something malformed before any empty clause.
BadComesFirst(f) ==
  \/ ~f.arr
  \/ /\ BadAt(f) # {}
     /\ \A c \in EmptyAt(f) : First(BadAt(f)) < c

Malformed(f) == ~f.arr \/ BadAt(f) # {}

NothingAllocated ==
  /\ literals = NoArray /\ start = NoArray /\ watch = NoArray
  /\ next = NoArray /\ move = NoArray

\* The literal occurrences of the clauses before clause c (1-based).
RECURSIVE LengthBefore(_, _)
LengthBefore(f, c) ==
  IF c <= 1 THEN 0 ELSE LengthBefore(f, c - 1) + Len(f.cs[c - 1].ls)

-----------------------------------------------------------------------------
(* C6.  When the scan comes to a clause of length zero, solve returns null *)
(* at once: the scan never goes past that clause, so whatever follows it,  *)
(* malformed or not, is neither validated nor processed, no storage is     *)
(* populated and the search is not run.                                    *)

C6_EmptyClauseEndsScan ==
  EmptyComesFirst(formula) =>
    LET e == First(EmptyAt(formula))
    IN  /\ i <= e - 1
        /\ p <= LengthBefore(formula, e)
        /\ pc \in {"enter", "scan", "done"}
        /\ result \in {"pending", "null"}
        /\ NothingAllocated
        /\ pc = "done" => result = "null" /\ i = e - 1

\* null returned at an empty clause that follows a good clause and is
\* followed by a malformed one.
C6_Witness ==
  /\ pc = "done" /\ result = "null" /\ EmptyComesFirst(formula)
  /\ First(EmptyAt(formula)) >= 2
  /\ BadAt(formula) # {}

-----------------------------------------------------------------------------
(* C7, as claimed.  solve fails with a validation error whenever the       *)
(* formula is no sequence, a clause is no sequence or a literal is no      *)
(* integer or is zero, whatever else the formula contains.                 *)

C7_AsClaimed ==
  (pc = "done" /\ Malformed(formula)) => result \in Errors

(* C7, amended.  solve fails with a validation error whenever the formula  *)
(* is no sequence, or the first malformed clause (no sequence, or holding  *)
(* a literal that is no integer or is zero) has no empty clause before it: *)
(* the scan stops at that clause with the error of its first offending     *)
(* part, and nothing is allocated or searched.                             *)

\* The error of clause slot c: that of the slot, else of its first bad literal.
ErrorOf(c) ==
  IF ~c.arr THEN "TypeError: Invalid clause"
  ELSE LET k == First({kk \in 1..Len(c.ls) : ~c.ls[kk].int \/ c.ls[kk].v = 0})
       IN  IF ~c.ls[k].int THEN "TypeError: Invalid literal"
           ELSE "RangeError: Invalid variable"

C7_ErrorUnlessEmptyFirst ==
  BadComesFirst(formula) =>
    /\ pc \in {"enter", "scan", "done"}
    /\ result \in {"pending"} \cup Errors
    /\ NothingAllocated
    /\ formula.arr => i <= First(BadAt(formula)) - 1
    /\ pc = "done" =>
         IF ~formula.arr THEN result = "TypeError: Invalid formula"
         ELSE /\ result = ErrorOf(formula.cs[First(BadAt(formula))])
              /\ i = First(BadAt(formula)) - 1

\* A range error thrown at a zero literal that follows a good clause, in a
\* formula that holds an empty clause further on.
C7_Witness ==
  /\ pc = "done" /\ result = "RangeError: Invalid variable"
  /\ i >= 1 /\ EmptyAt(formula) # {}

-----------------------------------------------------------------------------
(* What the codec claims speak of. *)

\* |L| >= 2^31
BeyondRange(b) == b.hi >= HalfLimb

\* L is a nonzero integer with |L| < 2^31.
InRange(b) == (b.hi > 0 \/ b.lo >= 1) /\ b.hi < HalfLimb

\* 2 * (|L| - 1) + (1 if L < 0 else 0), as two 16-bit halves.
ExpectedCode(b) ==
  LET m1 == MinusOne(MathAbs(b))
      low == 2 * m1.lo + (IF b.neg THEN 1 ELSE 0)
  IN  <<2 * m1.hi + low \div Limb, low % Limb>>

-----------------------------------------------------------------------------
(* C8, as claimed.  Every literal L with |L| >= 2^31 is rejected with a    *)
(* range validation failure, and none is ever encoded or stored.           *)

C8_AsClaimed ==
  (BeyondRange(num) /\ cstage \notin {"idle", "input"}) =>
    verdict \in RangeErrors /\ cstage = "checked"

-----------------------------------------------------------------------------
(* C9, as claimed.  For every nonzero L with |L| < 2^31 the stored code is *)
(* 2 * (|L| - 1) + (1 if L < 0 else 0); distinct literals get distinct     *)
(* codes; code XOR 1 is the code of -L and XOR 1 twice is the identity;    *)
(* and mapping the code back, variable = (code >> 1) + 1 and negative iff  *)
(* the low bit is 1, returns L.                                            *)

CodeLaws ==
  /\ word = ExpectedCode(num)
  /\ \A other \in CodecNumbers :
       (InRange(other) /\ other # num) => EncodeWord(other) # word
  /\ ComplementWord(word) = EncodeWord(Negate(num))
  /\ ComplementWord(ComplementWord(word)) = word

C9_AsClaimed ==
  (cstage \in {"encoded", "decoded"} /\ InRange(num)) =>
    CodeLaws /\ (cstage = "decoded" => back = num)

\* A literal beyond 2^30, whose code has the top bit set, has gone through
\* the codec and back.
C9_Witness ==
  cstage = "decoded" /\ InRange(num) /\ LessThan([hi |-> HalfLimb \div 2, lo |-> 0], num)

\* What does hold: the laws of the stored code for every |L| < 2^31, and the
\* way back for |L| <= 2^30.
C9_UpTo2Pow30 ==
  (cstage \in {"encoded", "decoded"} /\ InRange(num)) =>
    /\ CodeLaws
    /\ (cstage = "decoded" /\ ~LessThan([hi |-> HalfLimb \div 2, lo |-> 0], num))
         => back = num

-----------------------------------------------------------------------------
(* C10.  For a list of n literals and any integer k, at_most(k, Ls)        *)
(* returns C(n, k + 1) clauses when 0 <= k < n and none otherwise, and     *)
(* at_least(k, Ls) returns C(n, n - k + 1) clauses when 1 <= k <= n and    *)
(* none otherwise.                                                         *)

\* The binomial coefficient, by Pascal's rule.
RECURSIVE Choose(_, _)
Choose(a, b) ==
  IF b < 0 \/ b > a THEN 0
  ELSE IF b = 0 \/ b = a THEN 1
  ELSE Choose(a - 1, b - 1) + Choose(a - 1, b)

C10_ClauseCounts ==
  cout.returned =>
    /\ cop = "at_most" =>
         Len(cout.clauses) =
           IF 0 <= ck /\ ck < Len(cls) THEN Choose(Len(cls), ck + 1) ELSE 0
    /\ cop = "at_least" =>
         Len(cout.clauses) =
           IF 1 <= ck /\ ck <= Len(cls)
             THEN Choose(Len(cls), Len(cls) - ck + 1) ELSE 0

\* at_least(3, Ls) of four literals has returned its six clauses.
C10_Witness ==
  /\ cout.returned
  /\ cop = "at_least"
  /\ Len(cls) = 4
  /\ ck = 3
  /\ Len(cout.clauses) = 6

-----------------------------------------------------------------------------
(* C11.  combinations(k, Ls, sign) with 1 <= k <= n emits every k-element  *)
(* set of positions of Ls exactly once, in lexicographic order of the      *)
(* increasing index vectors; each clause lists the literals at those       *)
(* positions in position order, multiplied by sign (-1 from at_most, +1    *)
(* from at_least).                                                         *)

\* The members of a set of positions in increasing order.
Ascending(S) ==
  [q \in 1..Cardinality(S) |->
     CHOOSE x \in S : Cardinality({y \in S : y < x}) = q - 1]

\* a comes before b in the lexicographic order of vectors of equal length.
LexBefore(a, b) ==
  \E q \in 1..Len(a) : a[q] < b[q] /\ \A r \in 1..(q - 1) : a[r] = b[r]

\* Every kk-element set of the positions 1..nn, as increasing vectors in
\* lexicographic order.
LexVectors(nn, kk) ==
  LET V == {Ascending(S) : S \in {T \in SUBSET (1..nn) : Cardinality(T) = kk}}
  IN  [r \in 1..Cardinality(V) |->
         CHOOSE v \in V : Cardinality({u \in V : LexBefore(u, v)}) = r - 1]

\* The vectors for every list length and width within the bounds.
LexTable == [nn \in 0..MaxList |-> [kk \in 1..MaxList |-> LexVectors(nn, kk)]]

\* The clauses the claim describes for width kk over the list lits.
ClausesOfSets(kk, lits, sign) ==
  LET vs == LexTable[Len(lits)][kk]
  IN  [r \in 1..Len(vs) |-> [q \in 1..kk |-> lits[vs[r][q]] * sign]]

C11_LexicographicSubsets ==
  cout.returned =>
    /\ (cop = "at_most" /\ 1 <= ck + 1 /\ ck + 1 <= Len(cls)) =>
         cout.clauses = ClausesOfSets(ck + 1, cls, -1)
    /\ (cop = "at_least" /\ 1 <= Len(cls) - ck + 1 /\ Len(cls) - ck + 1 <= Len(cls)) =>
         cout.clauses = ClausesOfSets(Len(cls) - ck + 1, cls, 1)

\* at_most(1, Ls) of four different literals has returned its six pairs.
C11_Witness ==
  /\ cout.returned
  /\ cop = "at_most"
  /\ ck = 1
  /\ Len(cls) = 4
  /\ Cardinality({cls[q] : q \in 1..4}) = 4
  /\ Len(cout.clauses) = 6

-----------------------------------------------------------------------------
(* C12.  For a list Ls of literals over distinct variables and 0 <= k <=   *)
(* |Ls|, a total assignment satisfies every clause of at_most(k, Ls) iff   *)
(* at most k literals of Ls are true under it, and every clause of         *)
(* at_least(k, Ls) iff at least k literals of Ls are true under it.        *)

DistinctVariables(lits) ==
  \A q, r \in 1..Len(lits) : q # r => Abs(lits[q]) # Abs(lits[r])

TotalAssignments == [1..MaxVar -> BOOLEAN]

\* How many literals of the list are true under the assignment.
TrueCount(lits, a) == Cardinality({q \in 1..Len(lits) : TrueUnder(lits[q], a)})

\* Every clause of a list of clauses has a true literal.
AllClausesTrue(clauses, a) ==
  \A c \in 1..Len(clauses) : \E q \in 1..Len(clauses[c]) : TrueUnder(clauses[c][q], a)

C12_BinomialEncodingExact ==
  (cout.returned /\ DistinctVariables(cls) /\ 0 <= ck /\ ck <= Len(cls)) =>
    \A a \in TotalAssignments :
      /\ cop = "at_most" => (AllClausesTrue(cout.clauses, a) <=> TrueCount(cls, a) <= ck)
      /\ cop = "at_least" => (AllClausesTrue(cout.clauses, a) <=> TrueCount(cls, a) >= ck)

\* at_most(1, Ls) has returned for three variables of mixed polarity.
C12_Witness ==
  /\ cout.returned
  /\ cop = "at_most"
  /\ ck = 1
  /\ Len(cls) = 3
  /\ DistinctVariables(cls)
  /\ \E q, r \in 1..3 : cls[q] < 0 /\ cls[r] > 0
  /\ Len(cout.clauses) = 3

-----------------------------------------------------------------------------
(* C13.  exactly(k, Ls) is the clause list of at_most(k, Ls) followed by   *)
(* that of at_least(k, Ls); so exactly(|Ls|, Ls) is one unit clause per    *)
(* literal of Ls in list order, and exactly(0, Ls) one unit clause per     *)
(* negated literal of Ls in list order.                                    *)

\* The clauses at_most(k, Ls) stands for: the negated (k + 1)-element sets.
AtMostClauses(k, lits) ==
  IF 0 <= k /\ k < Len(lits) THEN ClausesOfSets(k + 1, lits, -1) ELSE <<>>

\* The clauses at_least(k, Ls) stands for: the (n - k + 1)-element sets.
AtLeastClauses(k, lits) ==
  IF 1 <= k /\ k <= Len(lits) THEN ClausesOfSets(Len(lits) - k + 1, lits, 1)
  ELSE <<>>

C13_ExactlyConcatenates ==
  (cout.returned /\ cop = "exactly") =>
    /\ cout.clauses = AtMostClauses(ck, cls) \o AtLeastClauses(ck, cls)
    /\ ck = Len(cls) => cout.clauses = [q \in 1..Len(cls) |-> <<cls[q]>>]
    /\ ck = 0 => cout.clauses = [q \in 1..Len(cls) |-> <<-cls[q]>>]

\* exactly(1, Ls) of three literals has returned three pairs and one triple.
C13_Witness ==
  /\ cout.returned
  /\ cop = "exactly"
  /\ ck = 1
  /\ Len(cls) = 3
  /\ Len(cout.clauses) = 4
  /\ Len(cout.clauses[1]) = 2
  /\ Len(cout.clauses[4]) = 3

-----------------------------------------------------------------------------
(* What the claims about the reference solvers speak of. *)

VarsOf(f) == UNION {{Abs(f[c][k]) : k \in 1..Len(f[c])} : c \in 1..Len(f)}

\* V: the largest variable of a plain formula, 0 when it has none.
TopVariable(f) == IF VarsOf(f) = {} THEN 0 ELSE Highest(VarsOf(f))

\* The total assignments of 1..V that make every clause true.
Models(f) == {a \in [1..TopVariable(f) -> BOOLEAN] : AllClausesTrue(f, a)}

AllSolutions == rout.returned /\ rop \in {"solve", "solve_append"}

-----------------------------------------------------------------------------
(* C14.  For a formula of nonempty clauses the list the recursive          *)
(* all-solutions solve returns is empty iff the formula is unsatisfiable;  *)
(* the empty formula yields exactly one, empty, assignment and the null    *)
(* formula yields none.                                                    *)

C14_EmptyIffUnsatisfiable ==
  AllSolutions =>
    /\ rin.null => rout.value.v = <<>>
    /\ (~rin.null /\ rin.v = <<>>) => rout.value.v = << <<>> >>
    /\ ~rin.null => (rout.value.v = <<>> <=> Models(rin.v) = {})

\* solve has returned no solution for the shortest interesting formula.
C14_Witness ==
  /\ AllSolutions
  /\ rop = "solve"
  /\ rin = Value(ShortestInteresting)
  /\ rout.value.v = <<>>

-----------------------------------------------------------------------------
(* C15.  The recursive all-solutions solve returns every solution exactly  *)
(* once: a returned assignment mentions no variable twice and makes every  *)
(* clause true however the variables it does not mention are set, and      *)
(* every total model of the formula extends exactly one returned           *)
(* assignment.                                                             *)

NoVariableTwice(sol) ==
  \A q, r \in 1..Len(sol) : q # r => Abs(sol[q]) # Abs(sol[r])

\* The total assignment agrees with every literal of the returned one.
Extends(a, sol) == \A q \in 1..Len(sol) : TrueUnder(sol[q], a)

C15_EverySolutionOnce ==
  (AllSolutions /\ ~rin.null) =>
    LET f == rin.v
        out == rout.value.v
        total == [1..TopVariable(f) -> BOOLEAN]
    IN  /\ \A k \in 1..Len(out) :
             /\ NoVariableTwice(out[k])
             /\ \A a \in total : Extends(a, out[k]) => AllClausesTrue(f, a)
        /\ \A a \in total :
             AllClausesTrue(f, a) =>
               Cardinality({k \in 1..Len(out) : Extends(a, out[k])}) = 1

\* solve has returned the six solutions of the van der Waerden problem.
C15_Witness ==
  /\ AllSolutions
  /\ rop = "solve"
  /\ rin = Value(VanDerWaerden)
  /\ Len(rout.value.v) = 6

-----------------------------------------------------------------------------
(* C16, as claimed.  Every assignment the all-solutions solve returns is a *)
(* sequence of exactly V signed integers, one per variable 1..V of the     *)
(* formula, free variables present with some polarity.                     *)

C16_AsClaimed ==
  (AllSolutions /\ ~rin.null) =>
    \A k \in 1..Len(rout.value.v) :
      /\ Len(rout.value.v[k]) = TopVariable(rin.v)
      /\ {Abs(rout.value.v[k][q]) : q \in 1..Len(rout.value.v[k])}
           = 1..TopVariable(rin.v)

(* C16, as the code has it.  Every returned assignment is a sequence of at *)
(* most V nonzero integers over pairwise different variables of the        *)
(* formula.  It may mention fewer than V variables, and then it makes      *)
(* every clause true however the variables it does not mention are set.    *)

C16_BranchedVariablesOnly ==
  (AllSolutions /\ ~rin.null) =>
    \A k \in 1..Len(rout.value.v) :
      LET sol == rout.value.v[k]
      IN  /\ Len(sol) <= TopVariable(rin.v)
          /\ NoVariableTwice(sol)
          /\ \A q \in 1..Len(sol) : sol[q] # 0 /\ Abs(sol[q]) \in VarsOf(rin.v)
          /\ \A a \in [1..TopVariable(rin.v) -> BOOLEAN] :
               Extends(a, sol) => AllClausesTrue(rin.v, a)

\* The test of src/sat_2.js: four variables, one assignment of three.
C16_Witness ==
  /\ AllSolutions
  /\ rop = "solve"
  /\ rin = Value(Simple2SAT)
  /\ TopVariable(rin.v) = 4
  /\ rout.value.v = << <<1, 3, 4>> >>

-----------------------------------------------------------------------------
(* C17.  Whenever sat(F) returns a literal list, the list is sorted by     *)
(* ascending variable, holds no variable twice and never a literal with    *)
(* its negation, and every clause of F holds at least one literal of the   *)
(* list.                                                                   *)

SatReturned == rout.returned /\ rop = "sat"

\* sat has returned, and what it returned is a list.
SatReturnedList ==
  SatReturned /\ rout.value.thrown = "none" /\ ~rout.value.null

C17_SatListSound ==
  SatReturnedList =>
    LET list == rout.value.v
        f == PlainOf(rin.v)
    IN  /\ \A q, r \in 1..Len(list) : q < r => Abs(list[q]) < Abs(list[r])
        /\ \A q, r \in 1..Len(list) : q # r => list[q] # -list[r]
        /\ \A c \in 1..Len(f) :
             \E k \in 1..Len(f[c]), q \in 1..Len(list) : f[c][k] = list[q]

\* sat validates the whole formula before anything else: it throws exactly
\* on the formulas with a malformed part, an empty clause in front or not.
SatValidatesFirst ==
  SatReturned => (rout.value.thrown # "none" <=> Malformed(rin.v))

\* sat has thrown on a formula whose first clause is empty.
SatThrowsPastEmptyClause ==
  /\ SatReturned
  /\ rin = Value(FormulaOf(<<ArrayOf(<<>>), ArrayOf(<<IntValue(0)>>)>>))
  /\ rout.value = Throws("Error: Expected a literal to be a positive or negative integer")

\* sat has returned its assignment for the van der Waerden problem.
C17_Witness ==
  /\ SatReturned
  /\ rin = Value(WellFormed(VanDerWaerden))
  /\ rout.value = Returns(<<1, -2, -3, 4, 5, -6, -7, 8>>)

-----------------------------------------------------------------------------
(* C18.  sat returns null iff the formula is unsatisfiable, so that its    *)
(* verdict agrees with the verdict of the watched-literal solver on every  *)
(* well-formed formula.                                                    *)

C18_SatAgreesWithWatched ==
  (SatReturned /\ IsWellFormed(rin.v)) =>
    /\ rout.value.thrown = "none"
    /\ rout.value.null <=> Models(PlainOf(rin.v)) = {}
    /\ (pc = "done" /\ rin = Value(formula)) =>
         (rout.value.null <=> result = "null")

\* Both solvers have found the shortest interesting formula unsatisfiable.
C18_Witness ==
  /\ SatReturned
  /\ pc = "done"
  /\ rin = Value(WellFormed(ShortestInteresting))
  /\ rin = Value(formula)
  /\ rout.value.null
  /\ result = "null"

-----------------------------------------------------------------------------
(* What the claims about the watch lists speak of. *)

Searching == pc \in {"B2", "B3", "B5", "B6"}

\* The clauses met by following next from clause jj, as long as the links
\* stay below M; the walk is cut after M + 1 clauses.
RECURSIVE Follow(_, _)
Follow(jj, steps) ==
  IF jj < 0 \/ jj >= m \/ steps > m THEN <<>>
  ELSE <<jj>> \o Follow(next[jj], steps + 1)

\* Where that walk ends: M when the chain is sound.
RECURSIVE EndOf(_, _)
EndOf(jj, steps) ==
  IF jj < 0 \/ jj >= m THEN jj
  ELSE IF steps > m THEN -1
  ELSE EndOf(next[jj], steps + 1)

\* The chain of literal code c.
ChainOf(c) == Follow(watch[c], 0)

Times(x, s) == Cardinality({k \in 1..Len(s) : s[k] = x})

Codes == 0..(2 * n - 1)

\* The code the store was built with for literal q (0-based) of clause cl.
OriginalCode(cl, q) == Encode(LitAt(formula, cl, q))

\* B3 is entered anew after B5 has flipped the move at this depth.
ReentryFromB5 == pc = "B3" /\ move[d] >= 2 /\ j = watch[Complement(l)]

-----------------------------------------------------------------------------
(* C19.  At every entry to B2 and at every re-entry to B3 from B5, each    *)
(* clause i is reached exactly once by following next from                 *)
(* watch[literals[start[i]]], is reached from the head of no other         *)
(* literal, and every chain ends in the sentinel M.                        *)

C19_WatchChainMembership ==
  (pc = "B2" \/ ReentryFromB5) =>
    /\ \A c \in Codes : EndOf(watch[c], 0) = m
    /\ \A cl \in 0..(m - 1) :
         \A c \in Codes :
           Times(cl, ChainOf(c)) = IF c = literals[start[cl]] THEN 1 ELSE 0

\* B3 is re-entered with a chain of two clauses or more to scan.
C19_Witness ==
  /\ ReentryFromB5
  /\ j < m
  /\ next[j] < m
  /\ m >= 3

-----------------------------------------------------------------------------
(* C20.  At every entry to B2 at depth d, the watched (first) literal of   *)
(* every clause belongs to a variable with index >= d or is true under     *)
(* the polarities move[0..d-1] & 1: no clause watches a false literal.     *)

\* Literal code c is true under the polarities chosen so far.
TrueAt(c) == (c + move[c \div 2]) % 2 = 0

C20_WatchHealth ==
  pc = "B2" =>
    \A cl \in 0..(m - 1) :
      LET c == literals[start[cl]]
      IN  (c \div 2) >= d \/ TrueAt(c)

\* B2 is entered at depth two or deeper after a retry, and some clause
\* watches a literal of an assigned variable.
C20_Witness ==
  /\ pc = "B2"
  /\ d >= 2
  /\ Retried
  /\ \E cl \in 0..(m - 1) : (literals[start[cl]] \div 2) < d

-----------------------------------------------------------------------------
(* C21.  Whenever B3 scans a chain, l = 2d | (move[d] & 1) for the current *)
(* depth d, and whenever B3 is entered (from B2, or from B5 after any      *)
(* number of B6 decrements) the scan starts at the head of the chain of    *)
(* the complement of that literal: the literal of the level B6 arrived at, *)
(* never that of a deeper level.  Both drivers.                            *)

DecisionLiteral == 2 * d + (move[d] % 2)

C21_ScanIsOfCurrentLevel ==
  [][ /\ pc' = "B3" => l' = 2 * d' + (move'[d'] % 2)
      /\ (pc # "B3" /\ pc' = "B3") =>
            j' = watch'[Complement(2 * d' + (move'[d'] % 2))] ]_vars

\* The flat driver scans at a level it has come back to: the level below
\* is exhausted, and the chain to drain is not empty.
C21_Witness ==
  /\ impl = "watched_literal_flat.mjs"
  /\ pc = "B3"
  /\ l = DecisionLiteral
  /\ move[d] >= 2
  /\ d + 1 < n
  /\ move[d + 1] >= 2
  /\ j = watch[Complement(l)]
  /\ j < m

-----------------------------------------------------------------------------
(* C22.  B6 returns null only at d = 0 and only when the level at which B3 *)
(* failed and every shallower level have move >= 2; otherwise it takes d   *)
(* down to the deepest level whose move is < 2 and B5 continues there: no  *)
(* level left behind has an untried polarity.  B6 leaves l alone, so the   *)
(* level at which B3 failed is l >> 1.                                     *)

FailedLevel == l \div 2

\* The search, not the scan of the input, has returned null.
SearchGaveUp == pc = "done" /\ result = "null" /\ ~NothingAllocated

C22_BacktrackSkipsNothing ==
  /\ SearchGaveUp =>
       /\ d = 0
       /\ \A dd \in 0..FailedLevel : move[dd] >= 2
  /\ pc \in {"B6", "B5"} =>
       /\ d <= FailedLevel
       /\ \A dd \in (d + 1)..FailedLevel : move[dd] >= 2
  /\ pc = "B5" => move[d] < 2

\* Null is returned after a failure at depth two or deeper.
C22_Witness == SearchGaveUp /\ FailedLevel >= 2

\* B5 continues two levels above the level that failed.
C22_DeepBacktrack == pc = "B5" /\ d + 2 <= FailedLevel

-----------------------------------------------------------------------------
(* C23.  B5 changes move[d] only when move[d] < 2 and then by XOR with 3   *)
(* (0 becomes 3, 1 becomes 2); the decision literal of the level becomes   *)
(* its complement and B3 is re-entered at the current head of the chain of *)
(* the complement of the new l.  No other step changes an entry of move    *)
(* except B2, which writes 0 or 1 at the current depth: a level is tried   *)
(* with at most two polarities per B2 visit.  Both drivers.                *)

\* The step is the flip of B5 (in the flat driver: the first branch of b5).
FlipStep ==
  /\ pc' = "B3"
  /\ \/ pc = "B5"
     \/ pc = "B6" /\ impl = "watched_literal_flat.mjs"

C23_FlipOncePerVisit ==
  [][ /\ FlipStep =>
           /\ move[d] < 2
           /\ move' = [move EXCEPT ![d] = IF move[d] = 0 THEN 3 ELSE 2]
           /\ d' = d
           /\ l' = Complement(2 * d + (move[d] % 2))
           /\ impl = "watched_literal_flat.mjs" => l' = Complement(l)
           /\ j' = watch[Complement(l')]
           /\ watch' = watch
      /\ (Searching /\ ~FlipStep) =>
           \A dd \in DOMAIN move :
             move'[dd] # move[dd] =>
               pc = "B2" /\ dd = d /\ move'[dd] \in {0, 1} ]_vars

\* After a backtrack, solve of src/sat.mjs has flipped a level that chose
\* the positive literal first, and the chain to drain is not empty.
C23_Witness ==
  /\ impl = "sat.mjs"
  /\ pc = "B3"
  /\ move[d] = 3
  /\ l = DecisionLiteral
  /\ j = watch[Complement(l)]
  /\ j < m
  /\ d + 1 < n
  /\ move[d + 1] >= 2

-----------------------------------------------------------------------------
(* C24.  At every B2 visit with d < V, move[d] is overwritten with 1 if no *)
(* clause currently watches the positive literal 2d or some clause         *)
(* currently watches the negative literal 2d + 1, and with 0 otherwise;    *)
(* the decision literal is l = 2d | move[d].  The value written is 0 or 1, *)
(* and a variable watched by no clause is tried negative first.  On        *)
(* Knuth's eq. 7 the choices lead to [-1, 2, -3, 4].                       *)

\* The clauses whose watched (first) literal is the code c.
WatchedBy(c) == {cl \in 0..(m - 1) : literals[start[cl]] = c}

KnuthEq7 == WellFormed(SubSeq(ShortestInteresting, 1, 7))

C24_PhaseChoice ==
  [][ /\ (pc = "B2" /\ d < n) =>
           LET mv == IF WatchedBy(2 * d) = {} \/ WatchedBy(2 * d + 1) # {}
                       THEN 1 ELSE 0
           IN  /\ move' = [move EXCEPT ![d] = mv]
               /\ l' = 2 * d + mv
               /\ (WatchedBy(2 * d) = {} /\ WatchedBy(2 * d + 1) = {})
                     => l' = 2 * d + 1
      /\ (formula = KnuthEq7 /\ pc' = "done") =>
           solution' = <<-1, 2, -3, 4>> ]_vars

\* B2 has just chosen the negative literal for a variable that no clause
\* watches, at a depth it has come back to after a retry.
C24_Witness ==
  /\ pc = "B3"
  /\ d >= 1
  /\ move[d] = 1
  /\ l = 2 * d + 1
  /\ WatchedBy(2 * d) = {}
  /\ WatchedBy(2 * d + 1) = {}
  /\ m >= 2
  /\ Retried

-----------------------------------------------------------------------------
(* C25.  B3 relocation: for a clause j watching the complement of l, the   *)
(* replacement is the literal in the lowest slot k, start[j] < k <         *)
(* start[j+1], that is not false at depth d (its variable index is > d, or *)
(* its polarity equals move[variable] & 1); slots start[j] and k are       *)
(* swapped, j becomes the head of the replacement literal's chain with     *)
(* next[j] set to that chain's previous head, and the scan continues with  *)
(* the successor of j read before the splice.                              *)

\* The slots of clause cl after its first.
LaterSlots(cl) == (start[cl] + 1)..(start[cl + 1] - 1)

\* The literal in slot k is not false at the current depth.
SlotNotFalse(k) ==
  LET c == literals[k]
  IN  (c \div 2) > d \/ (c % 2) = (move[c \div 2] % 2)

Candidates(cl) == {k \in LaterSlots(cl) : SlotNotFalse(k)}

C25_Relocation ==
  [][ (pc = "B3" /\ j < m) =>
        /\ literals[start[j]] = Complement(l)
        /\ IF Candidates(j) = {}
             THEN /\ pc' = "B6"
                  /\ literals' = literals /\ next' = next
             ELSE \E k \in Candidates(j) :
                    /\ \A k2 \in Candidates(j) : k <= k2
                    /\ literals' = [literals EXCEPT
                                      ![start[j]] = literals[k],
                                      ![k] = literals[start[j]]]
                    /\ watch' = [watch EXCEPT ![literals[k]] = j]
                    /\ next' = [next EXCEPT ![j] = watch[literals[k]]]
                    /\ j' = next[j]
                    /\ pc' = "B3"
                    /\ d' = d /\ l' = l /\ move' = move /\ start' = start
    ]_vars

\* Inside a scan that has relocated a clause: a clause of three literals
\* heads a chain in front of an older head, and the complement of l sits
\* in its last slot, the slot before it holding a false literal.
C25_Witness ==
  /\ pc = "B3"
  /\ j # watch[Complement(l)]
  /\ \E cl \in 0..(m - 1) :
       /\ start[cl + 1] - start[cl] >= 3
       /\ literals[start[cl] + 2] = Complement(l)
       /\ ~SlotNotFalse(start[cl] + 1)
       /\ watch[literals[start[cl]]] = cl
       /\ next[cl] < m

-----------------------------------------------------------------------------
(* C26.  Whenever B4 executes for decision literal l at depth d, every     *)
(* clause that watched the complement of l has been relocated:             *)
(* immediately after B4, watch[l XOR 1] = M, no clause has the complement  *)
(* of l as its first literal, and the depth has increased by exactly one.  *)

C26_AdvanceAfterDrain ==
  [][ (pc = "B3" /\ pc' = "B2") =>
        /\ watch'[Complement(l)] = m
        /\ \A cl \in 0..(m - 1) : literals'[start'[cl]] # Complement(l)
        /\ d' = d + 1
        /\ l' = l /\ l = DecisionLiteral ]_vars

\* B4 has just advanced, and a clause that was built with the complement
\* of l in front now watches another literal.
C26_Witness ==
  /\ pc = "B2"
  /\ d >= 1
  /\ l \div 2 = d - 1
  /\ watch[Complement(l)] = m
  /\ \E cl \in 0..(m - 1) :
       /\ OriginalCode(cl, 0) = Complement(l)
       /\ literals[start[cl]] # Complement(l)

-----------------------------------------------------------------------------
(* C27.  Backtracking leaves watch motions in place: between a B3 failure  *)
(* and the next B3 scan (through B5 and any number of B6 decrements) only  *)
(* move[d], d and l change (and j, which B5 reloads to start the next      *)
(* scan); literals, start, next and every watch head keep their values,    *)
(* the only write made on failure being watch[complement of l] := j        *)
(* before B3 is left.                                                      *)

C27_BacktrackKeepsWatches ==
  [][ /\ (pc = "B3" /\ pc' = "B6") =>
           /\ watch' = [watch EXCEPT ![Complement(l)] = j]
           /\ UNCHANGED <<literals, start, next, move, d, l, j>>
      /\ pc \in {"B6", "B5"} =>
           /\ UNCHANGED <<literals, start, next, watch>>
           /\ UNCHANGED <<formula, solution, m, n, p, i>>
           /\ \A dd \in DOMAIN move : dd # d' => move'[dd] = move[dd]
           /\ pc = "B6" => move' = move /\ l' = l /\ j' = j
           /\ pc = "B5" => d' = d /\ j' = watch[Complement(l')] ]_vars

\* B3 scans again two levels above a failure, and a clause still watches
\* a literal of a deeper level that an abandoned scan gave it.
C27_Witness ==
  /\ ReentryFromB5
  /\ d + 2 < n
  /\ move[d + 1] >= 2
  /\ move[d + 2] >= 2
  /\ \E cl \in 0..(m - 1) :
       /\ literals[start[cl]] # OriginalCode(cl, 0)
       /\ literals[start[cl]] \div 2 > d

-----------------------------------------------------------------------------
(* C28.  At every step of the search, for every clause i the slots         *)
(* literals[start[i] .. start[i+1]) hold a permutation of that clause's    *)
(* originally encoded literals (same multiset), start is never modified    *)
(* after construction, and the caller's input formula is never written to. *)

\* The slots of clause cl, and its size in the input.
SlotsOf(cl) == start[cl]..(start[cl + 1] - 1)

SizeOf(cl) == Len(ClauseAt(formula, cl).ls)

\* The store has been allocated and holds the clauses.
Allocated == pc \in {"B2", "B3", "B5", "B6"} \/ (pc = "done" /\ move # NoArray)

\* Construction has laid the clauses out as the input has them, encoded.
BuiltFromFormula ==
  /\ start = FillStart(formula, m)
  /\ DOMAIN literals = 0..(p - 1)
  /\ \A cl \in 0..(m - 1) :
       /\ Cardinality(SlotsOf(cl)) = SizeOf(cl)
       /\ \A q \in 0..(SizeOf(cl) - 1) :
            literals[start[cl] + q] = OriginalCode(cl, q)

\* The arrays a and b hold the same codes equally often in the slots of
\* every clause.
SameMultisets(a, b) ==
  \/ a = b
  \/ /\ DOMAIN a = DOMAIN b
     /\ \A cl \in 0..(m - 1) :
          \A k \in SlotsOf(cl) :
            Cardinality({k2 \in SlotsOf(cl) : a[k2] = a[k]})
              = Cardinality({k2 \in SlotsOf(cl) : b[k2] = a[k]})

\* Stated step by step: construction builds the clauses from the input,
\* and no later step does more than permute the slots of a clause.
C28_ClausesArePermuted ==
  [][ /\ formula' = formula
      /\ (~Allocated /\ Allocated') => BuiltFromFormula'
      /\ Allocated =>
           /\ start' = start
           /\ SameMultisets(literals, literals') ]_vars

\* A clause of three literals has none of them in the slot it was built in.
C28_Witness ==
  /\ Allocated
  /\ \E cl \in 0..(m - 1) :
       /\ SizeOf(cl) >= 3
       /\ \A q \in 0..2 : literals[start[cl] + q] # OriginalCode(cl, q)

-----------------------------------------------------------------------------
(* C29.  As claimed: at every step of the driver, including between two    *)
(* clause relocations inside a B3 scan, every clause is a member of        *)
(* exactly one watch chain, namely the chain headed at watch[first literal *)
(* of the clause].                                                         *)

C29_AsClaimed ==
  Allocated =>
    \A cl \in 0..(m - 1) :
      \A c \in Codes :
        Times(cl, ChainOf(c)) = IF c = literals[start[cl]] THEN 1 ELSE 0

(* C29, as the code has it.  Inside a B3 scan watch[l ^ 1] still names the *)
(* first clause the scan relocated; the clauses that still watch the       *)
(* complement of l hang off the scan variable j.  With j in the place of   *)
(* that one head, every clause is a member of exactly one chain, the chain *)
(* of its first literal, at every step; the heads in watch alone give this *)
(* outside of scans (B2, B5, B6, on return) and when a scan starts.        *)

\* The head of the chain of code c as the driver holds it.
HeadAt(c) == IF pc = "B3" /\ c = Complement(l) THEN j ELSE watch[c]

C29_OneChainThroughScanVariable ==
  Allocated =>
    /\ \A cl \in 0..(m - 1) :
         \A c \in Codes :
           Times(cl, Follow(HeadAt(c), 0))
             = IF c = literals[start[cl]] THEN 1 ELSE 0
    /\ \A c \in Codes : EndOf(HeadAt(c), 0) = m
    /\ (pc # "B3" \/ j = watch[Complement(l)]) =>
         \A c \in Codes : HeadAt(c) = watch[c]

\* Between two relocations: the scan has moved a clause away, and clauses
\* that watch the complement of l are still to be scanned.
C29_Witness ==
  /\ pc = "B3"
  /\ j < m
  /\ watch[Complement(l)] < m
  /\ j # watch[Complement(l)]
  /\ literals[start[watch[Complement(l)]]] # Complement(l)
  /\ literals[start[j]] = Complement(l)

-----------------------------------------------------------------------------
(* C30.  As claimed: at every B2 entry at depth d, for every clause i with *)
(* first literal code c = literals[start[i]]: clause i is reachable from   *)
(* watch[c] via next, and the variable index c >> 1 is > d or c evaluates  *)
(* true under move[0..d], i.e. (c + move[c >> 1]) is even.                 *)

Reachable(cl) == Times(cl, ChainOf(literals[start[cl]])) >= 1

C30_AsClaimed ==
  pc = "B2" =>
    \A cl \in 0..(m - 1) :
      LET c == literals[start[cl]]
      IN  /\ Reachable(cl)
          /\ (c \div 2) > d \/ (c + move[c \div 2]) % 2 = 0

(* C30, as the code has it.  On entry to B2 the variable d itself is not   *)
(* decided yet and move[d] is what an earlier visit left (or the initial   *)
(* 0): every clause is reachable from the head of its first literal, and   *)
(* that literal's variable index is >= d or the literal is true under      *)
(* move[0..d-1].  The bound of the claim is the one of B3 at depth d,      *)
(* after B2 has written move[d].                                           *)

C30_ReachableAndNotFalseBelowDepth ==
  pc = "B2" =>
    \A cl \in 0..(m - 1) :
      LET c == literals[start[cl]]
      IN  /\ Reachable(cl)
          /\ (c \div 2) >= d \/ (c + move[c \div 2]) % 2 = 0

\* B2 is entered again at a depth whose variable is watched by a clause
\* through the literal that the stale move[d] makes false, while another
\* clause watches a decided variable.
C30_Witness ==
  /\ pc = "B2"
  /\ d >= 1
  /\ d < n
  /\ Retried
  /\ \E cl \in 0..(m - 1) :
       /\ literals[start[cl]] \div 2 = d
       /\ (literals[start[cl]] + move[d]) % 2 = 1
  /\ \E cl \in 0..(m - 1) : literals[start[cl]] \div 2 < d

-----------------------------------------------------------------------------
(* C31.  As claimed: after a retry at level d, move[d] = 2 exactly when    *)
(* the positive literal was tried first and the negative literal is the    *)
(* current choice, and move[d] = 3 exactly when the negative literal was   *)
(* tried first and the positive literal is the current choice.             *)

\* The step is B5 of src/sat.mjs.
RetryStep == pc = "B5" /\ pc' = "B3"

\* Before the retry the level was on its first choice: the positive
\* literal 2d (move[d] = 0) or the negative literal 2d + 1 (move[d] = 1).
PositiveFirst == move[d] = 0
NegativeFirst == move[d] = 1

C31_AsClaimed ==
  [][ RetryStep =>
        /\ move'[d] = 2 <=> (PositiveFirst /\ l' = 2 * d + 1)
        /\ move'[d] = 3 <=> (NegativeFirst /\ l' = 2 * d) ]_vars

(* C31, as the code has it (and as Knuth's Algorithm B has it): the low    *)
(* bit of move[d] is the current polarity, so after a retry move[d] = 3    *)
(* exactly when the positive literal was tried first and the negative one  *)
(* is the current choice, and move[d] = 2 exactly when the negative        *)
(* literal was tried first and the positive one is the current choice.     *)
(* The first choice is B2's: move 0 with l = 2d, move 1 with l = 2d + 1;   *)
(* the assignment returned gives variable d + 1 the current polarity.      *)

C31_RetryCodes ==
  [][ /\ RetryStep =>
           /\ move[d] \in {0, 1} /\ move'[d] \in {2, 3}
           /\ move'[d] = 3 <=> (PositiveFirst /\ l' = 2 * d + 1)
           /\ move'[d] = 2 <=> (NegativeFirst /\ l' = 2 * d)
      /\ (pc = "B2" /\ pc' = "B3") =>
           /\ move'[d] = 0 <=> l' = 2 * d
           /\ move'[d] = 1 <=> l' = 2 * d + 1
      /\ (pc = "B2" /\ pc' = "done") =>
           \A dd \in 0..(n - 1) :
             /\ move[dd] = 2 => solution'[dd + 1] = dd + 1
             /\ move[dd] = 3 => solution'[dd + 1] = -(dd + 1) ]_vars

\* B3 scans for the negative literal of a level retried from positive,
\* below a level retried from negative to positive.
C31_Witness ==
  /\ pc = "B3"
  /\ move[d] = 3
  /\ l = 2 * d + 1
  /\ j < m
  /\ \E dd \in 0..(d - 1) : move[dd] = 2

-----------------------------------------------------------------------------
(* C32.  Between two visits to B2 at the same depth d, B6 has decremented  *)
(* the depth from d to below d at a moment when move[d] >= 2;              *)
(* consequently B3 never starts twice on the same vector of polarities     *)
(* (move[0] & 1, ..., move[d] & 1).  Read off the recorded run: trace      *)
(* holds the search state after every step of the driver.                  *)

DepthAt(k) == trace[k][1]
MoveAt(k) == trace[k][3]

\* Entry k of the trace is the state B2 left when it chose a literal: the
\* first entry, or the entry after a B4 (the step that increases d).
AfterB2(k) ==
  /\ DepthAt(k) < n
  /\ \/ k = 1
     \/ k >= 3 /\ DepthAt(k - 1) = DepthAt(k - 2) + 1

\* Entry k is the state B5 left: the level has just been retried.
AfterB5(k) ==
  /\ k >= 2
  /\ DepthAt(k) = DepthAt(k - 1)
  /\ MoveAt(k)[DepthAt(k)] >= 2
  /\ MoveAt(k - 1)[DepthAt(k)] < 2

\* B3 starts a scan in the state of entry k.
ScanStarts(k) == AfterB2(k) \/ AfterB5(k)

\* The polarities chosen down to the depth of entry k.
PolaritiesAt(k) == [dd \in 0..DepthAt(k) |-> MoveAt(k)[dd] % 2]

\* Entry k is the state B6 left when it went from depth dd to below it, the
\* level dd having been retried.
LeftExhausted(k, dd) ==
  /\ k >= 2
  /\ DepthAt(k - 1) = dd
  /\ DepthAt(k) = dd - 1
  /\ MoveAt(k)[dd] >= 2

\* Stated for the newest entry of the trace; every earlier entry was the
\* newest one in an earlier state of the same run.
C32_NoVectorTwice ==
  LET last == Len(trace)
  IN  (last >= 1 /\ pc # "done") =>
        /\ AfterB2(last) =>
             \A k \in 1..(last - 1) :
               (AfterB2(k) /\ DepthAt(k) = DepthAt(last)) =>
                 \E k2 \in (k + 1)..(last - 1) : LeftExhausted(k2, DepthAt(last))
        /\ ScanStarts(last) =>
             \A k \in 1..(last - 1) :
               ScanStarts(k) => PolaritiesAt(k) # PolaritiesAt(last)

\* B2 has come back to a depth it has visited before and B3 starts there,
\* the same polarity having been chosen at this depth under another prefix.
C32_Witness ==
  LET last == Len(trace)
  IN  /\ last >= 1
      /\ pc = "B3"
      /\ AfterB2(last)
      /\ DepthAt(last) >= 2
      /\ \E k \in 1..(last - 1) :
           /\ AfterB2(k)
           /\ DepthAt(k) = DepthAt(last)
           /\ MoveAt(k)[DepthAt(k)] = MoveAt(last)[DepthAt(k)]

-----------------------------------------------------------------------------
(* C33.  As claimed: in the tracing variant (the first solve of            *)
(* src/watched_literal_flat.mjs), after B6 decrements d the retry in B5    *)
(* operates on the decision literal of the new depth: whenever B3 is       *)
(* re-entered, l >> 1 = d and l & 1 = move[d] & 1.                         *)

C33_AsClaimed ==
  [][ (pc = "B6" /\ pc' = "B3") =>
        /\ l' \div 2 = d'
        /\ l' % 2 = move'[d'] % 2 ]_vars

\* The tracing variant scans for a literal of a deeper level than the one
\* it has come back to.
C33_StaleLiteral ==
  /\ impl = "watched_literal_flat.mjs"
  /\ pc = "B3"
  /\ move[d] >= 2
  /\ l \div 2 > d


-----------------------------------------------------------------------------
(* C34.  assign of fast_sat.mjs returns false only when some clause        *)
(* watching the complement of p has no other literal that is unassigned or *)
(* true; when every clause watching the complement of p can be relocated   *)
(* it moves all of them to their new lists and returns true.               *)

AssignReturned == rop = "assign" /\ rout.returned

\* The assignment once p is set (line 13).
AssignedWith(call) == [call.assignment EXCEPT ![to_var(call.p)] = call.p]

\* q is of a variable still to be decided, or is unassigned, or is true.
UnassignedOrTrue(q, call) ==
  \/ to_var(q) > to_var(call.p)
  \/ AssignedWith(call)[to_var(q)] = 0
  \/ AssignedWith(call)[to_var(q)] = q

\* The clauses that watch the complement of p when assign is called.
WatchingComplement(call) == call.watch[to_idx(-call.p)]

\* The clause has another literal to watch.
Relocatable(clause, call) ==
  \E k \in 2..Len(clause) : UnassignedOrTrue(clause[k], call)

C34_AsClaimed ==
  AssignReturned =>
    LET call == rin.v
        r == rout.value.v
        cs == WatchingComplement(call)
    IN  /\ ~r.ok => \E c \in 1..Len(cs) : ~Relocatable(cs[c], call)
        /\ (\A c \in 1..Len(cs) : Relocatable(cs[c], call)) =>
             r.ok /\ r.watch[to_idx(-call.p)] = <<>>

\* assign has returned false though it relocated the only clause that
\* watched the complement of p.
C34_FalseAfterRelocating ==
  /\ AssignReturned
  /\ ~rout.value.v.ok
  /\ Len(WatchingComplement(rin.v)) = 1
  /\ Relocatable(WatchingComplement(rin.v)[1], rin.v)
  /\ rout.value.v.watch[to_idx(-rin.v.p)] = <<>>

-----------------------------------------------------------------------------
(* C35.  solve of fast_sat.mjs returns an empty list only for an           *)
(* unsatisfiable formula: for every satisfiable well-formed formula the    *)
(* list holds at least one assignment.                                     *)

FastSolved == rop = "fast_solve" /\ rout.returned

C35_AsClaimed ==
  FastSolved => (rout.value.v = <<>> => Models(rin.v) = {})

\* solve has returned the empty list for a satisfiable formula.
C35_EmptyForSatisfiable ==
  /\ FastSolved
  /\ rout.value.v = <<>>
  /\ Models(rin.v) # {}


-----------------------------------------------------------------------------
(* C36.  simplify_clause(clause, literal) returns null iff the clause      *)
(* holds literal; otherwise it returns the literals of the clause without  *)
(* the occurrences of the negated literal, in their order.  The array it   *)
(* is given is never modified, and is itself what is returned when it      *)
(* holds no negated literal.  simplify_formula returns null iff some       *)
(* clause that does not hold literal is left empty, and otherwise the      *)
(* simplified clauses that do not hold literal, in their order.            *)

Holds(clause, x) == \E k \in 1..Len(clause) : clause[k] = x

Without(clause, x) == SelectSeq(clause, LAMBDA y : y # x)

\* The clauses that do not hold literal, each without the negated literal.
Survivors(f, literal) ==
  LET unsat == SelectSeq(f, LAMBDA cl : ~Holds(cl, literal))
  IN  [c \in 1..Len(unsat) |-> Without(unsat[c], -literal)]

ClauseSimplified ==
  rout.returned /\ rop \in {"sat.mjs simplify_clause", "sat_2.js simplify_clause"}

FormulaSimplified ==
  rout.returned /\ rop \in {"sat.mjs simplify_formula", "sat_2.js simplify_formula"}

C36_Simplification ==
  /\ ClauseSimplified =>
       LET clause == rin.v.x
           literal == rin.v.literal
           r == rout.value.v
       IN  /\ r.null <=> Holds(clause, literal)
           /\ ~r.null => r.v = Without(clause, -literal)
           /\ r.arg = clause
           /\ (~Holds(clause, literal) /\ ~Holds(clause, -literal)) => r.same
           /\ r.same => r.v = clause
           /\ simplify_clause(clause, literal) = [null |-> r.null, v |-> r.v]
  /\ FormulaSimplified =>
       LET f == rin.v.x
           literal == rin.v.literal
           r == rout.value.v.r
       IN  /\ r.null <=> \E c \in 1..Len(f) :
                           ~Holds(f[c], literal) /\ Without(f[c], -literal) = <<>>
           /\ ~r.null => r.v = Survivors(f, literal)
           /\ rout.value.v.arg = f

\* simplify_clause of sat_2.js has returned a new, shorter array for a
\* clause of three literals whose middle one is the negated literal.
C36_Witness ==
  /\ ClauseSimplified
  /\ rop = "sat_2.js simplify_clause"
  /\ ~rout.value.v.null
  /\ Len(rin.v.x) = 3
  /\ rin.v.x[2] = -rin.v.literal
  /\ Len(rout.value.v.v) = 2
  /\ ~rout.value.v.same

\* simplify_formula has dropped a clause and shortened another.
C36_FormulaShortened ==
  /\ FormulaSimplified
  /\ ~rout.value.v.r.null
  /\ Len(rout.value.v.r.v) < Len(rin.v.x)
  /\ \E c \in 1..Len(rin.v.x) : Holds(rin.v.x[c], -rin.v.literal)


-----------------------------------------------------------------------------
(* C37.  unit_propagate takes the entries of open oldest first and puts    *)
(* new ones behind those waiting.  When it returns true open is empty,     *)
(* closed has only been appended to, and the formula holds no unit clause. *)
(* It returns false iff simplifying by the literal it propagates leaves a  *)
(* clause empty, and open is emptied then.                                 *)

IsPrefix(a, b) == Len(a) <= Len(b) /\ SubSeq(b, 1, Len(a)) = a

\* One round of the while loop of unit_propagate is about to run.
Round == phase = "propagate" /\ openList # <<>>

\* The oldest entry of open is skipped: its clause is null already
\* (src/sat.js), or its literal is in closed (part_004).
Stale ==
  IF ByIndex THEN Current[Head(openList) + 1] = 0
  ELSE \E k \in 1..Len(closedList) : closedList[k] = Head(openList)

\* The literal of the oldest entry of open.
Propagated ==
  IF ByIndex THEN arrays[Current[Head(openList) + 1]][1] ELSE Head(openList)

\* Some clause of the formula, other than the one taken from open, does not
\* hold the literal and holds nothing but its negation.
LeavesEmpty(literal) ==
  \E k \in Defined(Current) :
    /\ ~(ByIndex /\ k = Head(openList) + 1)
    /\ ~Holds(arrays[Current[k]], literal)
    /\ Without(arrays[Current[k]], -literal) = <<>>

NoUnitLeft == \A k \in Defined(Current) : Len(arrays[Current[k]]) # 1

C37_UnitPropagation ==
  [][ /\ Round =>
           /\ IsPrefix(closedList, closedList')
           /\ Stale => /\ closedList' = closedList
                       /\ openList' = Tail(openList)
                       /\ phase' = "propagate"
           /\ ~Stale =>
                /\ closedList' = Append(closedList, Propagated)
                /\ phase' = "failed" <=> LeavesEmpty(Propagated)
                /\ phase' = "failed" => openList' = <<>>
                /\ phase' = "propagate" => IsPrefix(Tail(openList), openList')
      /\ (phase = "propagate" /\ phase' = "choose") =>
           /\ openList' = <<>>
           /\ closedList' = closedList
           /\ NoUnitLeft'
    ]_vars

\* unit_propagate has returned true in a call made on a guess, having
\* propagated the guess and a unit clause that the guess left.
C37_Witness ==
  /\ phase = "choose"
  /\ Len(frames) >= 2
  /\ Len(closedList) >= frames[Len(frames) - 1].closed_length + 2
  /\ Defined(Current) # {}

\* unit_propagate has returned false after propagating more than one
\* literal.
C37_Contradiction ==
  /\ phase = "failed"
  /\ Len(closedList) >= 2
  /\ openList = <<>>


-----------------------------------------------------------------------------
(* C38.  When a guess leads to a contradiction, sat_recursive cuts closed  *)
(* back to its length before the guess, leaves in open the negated guess   *)
(* alone, and the caller's copy of the formula holds what it held before   *)
(* the guess, the guess clause being now the unit clause of the negated    *)
(* guess.  The array passed to sat, and its clauses, are never modified.   *)

\* What a formula array holds: null or the literals of a clause.
Held(fs, heap, ref) ==
  [k \in 1..Len(fs[ref]) |->
     IF fs[ref][k] = 0 THEN Null ELSE Value(heap[fs[ref][k]])]

GuessStep == phase = "choose" /\ phase' = "propagate"

RestoreStep == phase = "failed" /\ phase' = "propagate"

\* The call whose guess has just failed.
Guesser == frames[Len(frames) - 1]

\* The literal the guesser guessed.
Guessed ==
  IF ByIndex THEN arrays[copies[Guesser.formula][Guesser.formula_length + 1]][1]
  ELSE arrays[Guesser.clause][1]

\* The calls that wait for a callee to return and go on waiting.
Waiting == 1..(Len(frames) - (IF RestoreStep THEN 2 ELSE 1))

UserArrayIntact ==
  /\ copies[1] = Refs(Len(PlainOf(rin.v)))
  /\ \A c \in 1..Len(PlainOf(rin.v)) : arrays[c] = PlainOf(rin.v)[c]

C38_Restoration ==
  [][ /\ GuessStep =>
           LET before == Held(copies, arrays, TopFrame.formula)
               lit == before[Lowest(Defined(Current))].v[1]
               after == Held(copies', arrays', TopFrame.formula)
               caller == frames'[Len(frames)]
           IN  /\ caller.closed_length = Len(closedList)
               /\ closedList' = closedList
               /\ ByIndex => /\ caller.formula_length = Len(before)
                             /\ after = Append(before, Value(<<lit>>))
                             /\ openList' = Append(openList, Len(before))
               /\ ~ByIndex => /\ after = before
                              /\ openList' = Append(openList, lit)
      /\ RestoreStep =>
           LET before == Held(copies, arrays, Guesser.formula)
               after == Held(copies', arrays', Guesser.formula)
               place == Guesser.formula_length + 1
           IN  /\ Len(closedList') = Guesser.closed_length
               /\ IsPrefix(closedList', closedList)
               /\ ByIndex => /\ before[place] = Value(<<Guessed>>)
                             /\ after = [before EXCEPT ![place] = Value(<<-Guessed>>)]
                             /\ place = Len(after)
                             /\ openList' = <<place - 1>>
               /\ ~ByIndex => /\ after = before
                              /\ openList' = <<-Guessed>>
      /\ frames' # <<>> =>
           \A k \in Waiting :
             /\ frames'[k] = frames[k]
             /\ Held(copies', arrays', frames[k].formula)
                  = Held(copies, arrays, frames[k].formula)
             /\ SubSeq(closedList', 1, frames[k].closed_length)
                  = SubSeq(closedList, 1, frames[k].closed_length)
      /\ UserArrayIntact'
      /\ rin' = rin
    ]_vars

\* src/sat.js has just restored its state after a failed guess made at
\* depth two or more: open holds the index of the guess clause alone, and
\* that clause holds the negation of the first literal left.
C38_Witness ==
  /\ ByIndex
  /\ phase = "propagate"
  /\ Len(frames) >= 2
  /\ TopFrame.formula_length > 0
  /\ openList = <<TopFrame.formula_length>>
  /\ Len(closedList) = TopFrame.closed_length
  /\ Current[TopFrame.formula_length + 1] # 0
  /\ arrays[Current[TopFrame.formula_length + 1]]
       = <<-arrays[Current[Lowest(Defined(Current))]][1]>>


-----------------------------------------------------------------------------
(* C39.  After construction and before the first B2, the chain of every    *)
(* literal code c lists exactly the clauses whose first literal is c, in   *)
(* strictly ascending order of clause index, and ends in M; watch[c] = M   *)
(* when no clause starts with c.                                           *)

\* The store is built and B2 has not run yet.
JustConstructed == pc = "B2" /\ d = 0

\* The clauses from cl on whose first literal has code c, ascending.
RECURSIVE StartingWith(_, _)
StartingWith(c, cl) ==
  IF cl >= m THEN <<>>
  ELSE (IF OriginalCode(cl, 0) = c THEN <<cl>> ELSE <<>>) \o StartingWith(c, cl + 1)

C39_InitialThreading ==
  JustConstructed =>
    \A c \in Codes :
      /\ ChainOf(c) = StartingWith(c, 0)
      /\ \A k \in 1..(Len(ChainOf(c)) - 1) : ChainOf(c)[k] < ChainOf(c)[k + 1]
      /\ EndOf(watch[c], 0) = m
      /\ StartingWith(c, 0) = <<>> => watch[c] = m

\* The flat driver has built a store in which some chain holds two clauses
\* or more and some code is watched by no clause.
C39_Witness ==
  /\ JustConstructed
  /\ impl = "watched_literal_flat.mjs"
  /\ \E c \in Codes : Len(ChainOf(c)) >= 2
  /\ \E c \in Codes : watch[c] = m

=============================================================================
